---- MODULE Spec2Model ----
(***************************************************************************)
(* Collection-visibility synchronisation and object-base caches of         *)
(* source/blender/blenkernel/intern/layer.c.                               *)
(*                                                                         *)
(* One scene with one ViewLayer.  The scene side is the collection DAG     *)
(* (children, parents, gobject, flag of every Collection); the view side   *)
(* is the LayerCollection tree, the Base list, the object->base hash, the  *)
(* base array and the two active references.  LayerCollections and Bases   *)
(* live in arenas keyed by an identity (the pointer value of the C code).  *)
(***************************************************************************)
EXTENDS Integers, Sequences, FiniteSets, TLC

(* ------------------------------------------------------------------ *)
(* Universe and bounds                                                *)
(* ------------------------------------------------------------------ *)

NULL == 0

\* The null Collection pointer (collections are named, not numbered).
NoCollection == "NULL"

\* A pointer to a LayerCollection whose memory was freed.
DANGLING == 0 - 1

master_collection == "M"

Collections == {"M", "A", "B"}

Objects == {"o1", "o2", "o3"}

\* Bound of the environment: the number of edits of the scene and of user
\* operations on the view after the view layer was added.
MaxOps == 2

\* The number of threads that look a Base up at the same time.
NumThreads == 2

Threads == 1..NumThreads

LAYER_COLLECTION_EXCLUDE == "EXCLUDE"

COLLECTION_RESTRICT_VIEW == "RESTRICT_VIEW"

COLLECTION_RESTRICT_SELECT == "RESTRICT_SELECT"

COLLECTION_RESTRICT_RENDER == "RESTRICT_RENDER"

COLLECTION_IS_MASTER == "IS_MASTER"

BASE_SELECTED == "SELECTED"

BASE_VISIBLED == "VISIBLED"

BASE_SELECTABLED == "SELECTABLED"

BASE_VISIBLE_VIEWPORT == "VISIBLE_VIEWPORT"

BASE_VISIBLE_RENDER == "VISIBLE_RENDER"

RestrictBits == {COLLECTION_RESTRICT_VIEW, COLLECTION_RESTRICT_SELECT, COLLECTION_RESTRICT_RENDER}

SyncedBits == {BASE_VISIBLED, BASE_SELECTABLED, BASE_VISIBLE_VIEWPORT, BASE_VISIBLE_RENDER}

VARIABLES
  children,              \* Collection.children: the ordered child links
  parents,               \* Collection.parents: the ordered parent links
  gobject,               \* Collection.gobject: the ordered objects
  cflag,                 \* Collection.flag
  lcs,                   \* arena of LayerCollections: id -> [collection, flag, layer_collections]
  layer_collections,     \* ViewLayer.layer_collections: the root list
  active_collection,     \* ViewLayer.active_collection
  bases,                 \* arena of Bases: id -> [object, flag]
  object_bases,          \* ViewLayer.object_bases
  object_bases_hash,     \* ViewLayer.object_bases_hash: [present, entries]
  object_bases_array,    \* ViewLayer.object_bases_array: [present, items]
  basact,                \* ViewLayer.basact
  synced,                \* a sync completed and nothing was changed since
  ops,                   \* number of scene edits and user operations so far
  hash_lock,             \* view_layer_bases_hash_create's static mutex: its holder, or NULL
  threads,               \* the threads inside BKE_view_layer_base_find: [pc, ob, i, ret]
  override_sets,         \* ViewLayer.override_sets
  active_override_set,   \* ViewLayer.active_override_set
  osets,                 \* arena of OverrideSets: id -> [flag, affected_collections,
                         \*   active_affected_collection, scene_properties, collection_properties]
  props,                 \* arena of DynamicOverrideProperties: id -> [flag, operation,
                         \*   id_type, property_type, array_len]
  apply,                 \* the ID handed to BKE_dynamic_override_apply and what it received
  iter_scenes,           \* the scenes an iterator runs over: the chain of Scene.set, each
                         \*   scene its view_layers, each view [flag, object_bases]
  iter_objects,          \* the objects the Bases of iter_scenes reference: ob -> [lib, type, mode]
  iter,                  \* a BLI_Iterator, its data struct and what its caller received
  walk                   \* a running BKE_layer_collection_sync: [pc, stack, lc]

sceneVars == <<children, parents, gobject, cflag>>

viewVars == <<lcs, layer_collections, active_collection, bases, object_bases,
              object_bases_hash, object_bases_array, basact>>

findVars == <<hash_lock, threads>>

overrideVars == <<override_sets, active_override_set, osets, props>>

iterVars == <<apply, iter_scenes, iter_objects, iter, walk>>

vars == <<children, parents, gobject, cflag, lcs, layer_collections,
          active_collection, bases, object_bases, object_bases_hash,
          object_bases_array, basact, synced, ops, hash_lock, threads,
          override_sets, active_override_set, osets, props,
          apply, iter_scenes, iter_objects, iter, walk>>

(* ------------------------------------------------------------------ *)
(* ListBase helpers                                                   *)
(* ------------------------------------------------------------------ *)

Range(s) == {s[i] : i \in DOMAIN s}

First(s) == IF s = <<>> THEN NULL ELSE s[1]

LastOf(s) == IF s = <<>> THEN NULL ELSE s[Len(s)]

\* BLI_remlink: unlink x from the list that holds it.
Remlink(s, x) == SelectSeq(s, LAMBDA y : y # x)

\* MEM_callocN: the smallest identity not in use.
FreshId(used) == CHOOSE i \in 1..(Cardinality(used) + 1) : i \notin used

Restrict(f, S) == [x \in S |-> f[x]]

(* ------------------------------------------------------------------ *)
(* The view as one record, and the record the sync threads through    *)
(* ------------------------------------------------------------------ *)

View == [lcs |-> lcs, layer_collections |-> layer_collections,
         active_collection |-> active_collection, bases |-> bases,
         object_bases |-> object_bases, object_bases_hash |-> object_bases_hash,
         object_bases_array |-> object_bases_array, basact |-> basact]

\* While lb_layer is &view_layer->layer_collections (the top-level call) every
\* change of the list is a change of what view_layer->layer_collections holds.
SetVl(st, top, lb) == IF top THEN [st EXCEPT !.vl = lb] ELSE st

(* ------------------------------------------------------------------ *)
(* layer_collection_free                                              *)
(* ------------------------------------------------------------------ *)

RECURSIVE layer_collection_free(_, _)
RECURSIVE layer_collection_free_each(_, _)

layer_collection_free_each(st, rest) ==
  IF rest = <<>> THEN st
  ELSE layer_collection_free_each(layer_collection_free(st, Head(rest)), Tail(rest))

layer_collection_free(st, lc) ==
  LET s1 == IF lc = st.active THEN [st EXCEPT !.active = First(st.vl)] ELSE st
      kids == st.lcs[lc].layer_collections
      s2 == layer_collection_free_each(s1, kids)
  IN  \* BLI_freelistN(&lc->layer_collections): the children's memory is gone
      [s2 EXCEPT !.lcs = [Restrict(s2.lcs, DOMAIN s2.lcs \ Range(kids))
                            EXCEPT ![lc].layer_collections = <<>>],
                 !.active = IF s2.active \in Range(kids) THEN DANGLING ELSE s2.active]

\* BLI_freelinkN(lb_layer, lc): unlink lc and free its memory.
FreeLink(st, lc) ==
  [st EXCEPT !.lcs = Restrict(st.lcs, DOMAIN st.lcs \ {lc}),
             !.active = IF st.active = lc THEN DANGLING ELSE st.active]

(* ------------------------------------------------------------------ *)
(* layer_collection_sync                                              *)
(* ------------------------------------------------------------------ *)

\* BLI_ghash_lookup: the Base stored under key ob, NULL when there is none.
GhashLookup(entries, ob) ==
  IF \E e \in entries : e[1] = ob
    THEN (CHOOSE e \in entries : e[1] = ob)[2]
    ELSE NULL

\* The flag bits one visit of an object grants (layer.c 701-710).
VisitBits(child_restrict) ==
  (IF COLLECTION_RESTRICT_VIEW \notin child_restrict
     THEN {BASE_VISIBLED, BASE_VISIBLE_VIEWPORT} \cup
          (IF COLLECTION_RESTRICT_SELECT \notin child_restrict THEN {BASE_SELECTABLED} ELSE {})
     ELSE {}) \cup
  (IF COLLECTION_RESTRICT_RENDER \notin child_restrict THEN {BASE_VISIBLE_RENDER} ELSE {})

\* Move an existing Base to the new list unless it is its first or last element.
MoveBase(st, base) ==
  IF base \notin {First(st.new), LastOf(st.new)}
    THEN [st EXCEPT !.old = Remlink(st.old, base),
                    !.new = Append(Remlink(st.new, base), base)]
    ELSE st

\* Mutant of NewBase: the new Base is not inserted into the hash.
NewBaseNoInsert(st, ob) ==
  LET base == FreshId(st.usedb)
  IN  [st EXCEPT !.bases = st.bases @@ (base :> [object |-> ob, flag |-> {}]),
                 !.usedb = @ \cup {base},
                 !.new = Append(st.new, base)]

\* object_base_new + BLI_addtail + BLI_ghash_insert
NewBase(st, ob) ==
  LET base == FreshId(st.usedb)
  IN  [st EXCEPT !.bases = st.bases @@ (base :> [object |-> ob, flag |-> {}]),
                 !.usedb = @ \cup {base},
                 !.new = Append(st.new, base),
                 !.hash = @ \cup {<<ob, base>>}]

\* One iteration of the loop over collection->gobject.
SyncObject(st, ob, child_restrict) ==
  LET found == GhashLookup(st.hash, ob)
      s1 == IF found # NULL THEN MoveBase(st, found) ELSE NewBase(st, ob)
      base == IF found # NULL THEN found ELSE FreshId(st.usedb)
  IN  [s1 EXCEPT !.bases[base].flag = @ \cup VisitBits(child_restrict)]

RECURSIVE SyncObjects(_, _, _)
SyncObjects(st, cobs, child_restrict) ==
  IF cobs = <<>> THEN st
  ELSE SyncObjects(SyncObject(st, Head(cobs), child_restrict), Tail(cobs), child_restrict)

\* Mutant of SyncOwnObjects: the objects of an excluded collection are synced too.
SyncOwnObjectsAlways(st, lc, collection, child_restrict) ==
  SyncObjects(st, gobject[collection], child_restrict)

\* Mutant of SyncOwnObjects: exclusion is shared by all layer collections of
\* one collection.
SyncOwnObjectsSharedExclude(st, lc, collection, child_restrict) ==
  IF \E n \in DOMAIN st.lcs :
       st.lcs[n].collection = collection /\ LAYER_COLLECTION_EXCLUDE \in st.lcs[n].flag
    THEN st
    ELSE SyncObjects(st, gobject[collection], child_restrict)

\* Layer collection exclude is not inherited: only the objects of lc itself
\* are skipped when lc is excluded (layer.c 676-711).
SyncOwnObjects(st, lc, collection, child_restrict) ==
  IF LAYER_COLLECTION_EXCLUDE \in st.lcs[lc].flag
    THEN st
    ELSE SyncObjects(st, gobject[collection], child_restrict)

\* Mutant of ChildRestrict: the flag of the master collection is unioned in too.
ChildRestrictMaster(parent_restrict, collection) ==
  parent_restrict \cup cflag[collection]

\* Mutant of ChildRestrict: only the collection's own flag, nothing inherited.
ChildRestrictOwn(parent_restrict, collection) ==
  IF COLLECTION_IS_MASTER \notin cflag[collection]
    THEN cflag[collection]
    ELSE {}

\* Collection restrict is inherited (layer.c 664-668).
ChildRestrict(parent_restrict, collection) ==
  IF COLLECTION_IS_MASTER \notin cflag[collection]
    THEN parent_restrict \cup cflag[collection]
    ELSE parent_restrict

\* BLI_findptr(lb_layer, collection, offsetof(LayerCollection, collection))
FindLc(st, lb_layer, collection) ==
  IF \E i \in DOMAIN lb_layer : st.lcs[lb_layer[i]].collection = collection
    THEN lb_layer[CHOOSE i \in DOMAIN lb_layer :
                    /\ st.lcs[lb_layer[i]].collection = collection
                    /\ \A j \in 1..(i-1) : st.lcs[lb_layer[j]].collection # collection]
    ELSE NULL

\* Mutant of LayerCollectionAdd: the flag stays as MEM_callocN left it.
LayerCollectionAddNoFlag(st, lc, collection, parent_exclude) ==
  [st EXCEPT !.lcs = st.lcs @@ (lc :> [collection |-> collection, flag |-> {},
                                        layer_collections |-> <<>>]),
             !.used = @ \cup {lc}]

\* layer_collection_add, with lc->flag = parent_exclude
LayerCollectionAdd(st, lc, collection, parent_exclude) ==
  [st EXCEPT !.lcs = st.lcs @@ (lc :> [collection |-> collection, flag |-> parent_exclude,
                                        layer_collections |-> <<>>]),
             !.used = @ \cup {lc}]

\* The first loop: remove layer collections without a scene collection.
RECURSIVE SyncPrune(_, _, _, _, _)
SyncPrune(st, lb_scene, kept, todo, top) ==
  IF todo = <<>> THEN [st |-> st, lb |-> kept]
  ELSE LET lc == Head(todo)
           coll == st.lcs[lc].collection
       IN  IF coll # NoCollection /\ coll \in Range(lb_scene)
             THEN SyncPrune(st, lb_scene, Append(kept, lc), Tail(todo), top)
             ELSE SyncPrune(SetVl(FreeLink(layer_collection_free(st, lc), lc), top, kept \o Tail(todo)),
                            lb_scene, kept, Tail(todo), top)

\* Mutant of BLI_addtail: the link is put at the head of the list.
BLI_addhead(listbase, link) == <<link>> \o listbase

\* BLI_addtail(&new_lb_layer, lc), also inside layer_collection_add (layer.c 657, 660).
BLI_addtail(listbase, link) == Append(listbase, link)

\* Mutant of ReplaceList: the old list is kept.
ReplaceListKeepOld(lb_layer, new_lb_layer) == lb_layer

\* What the end of layer_collection_sync leaves in *lb_layer.
ReplaceList(lb_layer, new_lb_layer) == new_lb_layer

RECURSIVE layer_collection_sync(_, _, _, _, _, _)
RECURSIVE SyncChildren(_, _, _, _, _, _, _, _)

\* The second loop, over the scene children still to do.
SyncChildren(st, lb_scene, todo, lb_layer, new_lb_layer, top, parent_exclude, parent_restrict) ==
  IF todo = <<>>
    THEN LET lb == ReplaceList(lb_layer, new_lb_layer)
         IN  [st |-> [SetVl(st, top, lb) EXCEPT !.ok = @ /\ (Len(lb_scene) = Len(lb))],
              lb |-> lb]
    ELSE LET collection == Head(todo)
             found == FindLc(st, lb_layer, collection)
             lc == IF found # NULL THEN found ELSE FreshId(st.used)
             lb1 == IF found # NULL THEN Remlink(lb_layer, lc) ELSE lb_layer
             s1 == IF found # NULL THEN SetVl(st, top, lb1)
                   ELSE LayerCollectionAdd(st, lc, collection, parent_exclude)
             child_restrict == ChildRestrict(parent_restrict, collection)
             r == layer_collection_sync(s1, children[collection], s1.lcs[lc].layer_collections,
                                        FALSE, s1.lcs[lc].flag, child_restrict)
             s2 == [r.st EXCEPT !.lcs[lc].layer_collections = r.lb]
             s3 == SyncOwnObjects(s2, lc, collection, child_restrict)
         IN  SyncChildren(s3, lb_scene, Tail(todo), lb1, BLI_addtail(new_lb_layer, lc), top,
                          parent_exclude, parent_restrict)

layer_collection_sync(st, lb_scene, lb_layer, top, parent_exclude, parent_restrict) ==
  LET p == SyncPrune(st, lb_scene, <<>>, lb_layer, top)
  IN  SyncChildren(p.st, lb_scene, lb_scene, p.lb, <<>>, top, parent_exclude, parent_restrict)

(* ------------------------------------------------------------------ *)
(* Lookup of layer collections, activation                            *)
(* ------------------------------------------------------------------ *)

RECURSIVE find_layer_collection_by_scene_collection(_, _, _)
RECURSIVE FindInList(_, _, _)

FindInList(L, list, collection) ==
  IF list = <<>> THEN NULL
  ELSE LET found == find_layer_collection_by_scene_collection(L, Head(list), collection)
       IN  IF found # NULL THEN found ELSE FindInList(L, Tail(list), collection)

find_layer_collection_by_scene_collection(L, lc, collection) ==
  IF L[lc].collection = collection THEN lc
  ELSE FindInList(L, L[lc].layer_collections, collection)

BKE_layer_collection_first_from_scene_collection(L, roots, collection) ==
  FindInList(L, roots, collection)

RECURSIVE BKE_layer_collection_activate_parent(_, _, _)
BKE_layer_collection_activate_parent(L, roots, lc) ==
  LET ps == parents[L[lc].collection]
      found == IF ps # <<>>
                 THEN BKE_layer_collection_first_from_scene_collection(L, roots, Head(ps))
                 ELSE NULL
  IN  IF found # NULL /\ LAYER_COLLECTION_EXCLUDE \in L[found].flag
        THEN BKE_layer_collection_activate_parent(L, roots, found)
        ELSE IF found = NULL THEN First(roots) ELSE found

(* ------------------------------------------------------------------ *)
(* view_layer_bases_hash_create, BKE_layer_collection_sync            *)
(* ------------------------------------------------------------------ *)

\* Mutant of view_layer_bases_hash_create: the new hash is left empty.
view_layer_bases_hash_create_empty(v) == {}

\* The entries a fresh hash gets from the Base list.
view_layer_bases_hash_create(v) ==
  {<<v.bases[b].object, b>> : b \in Range(v.object_bases)}

\* Mutant of ClearSyncedBits: the whole flag is cleared (base->flag = 0).
ClearSyncedBitsAll(v) ==
  [b \in DOMAIN v.bases |->
     IF b \in Range(v.object_bases)
       THEN [v.bases[b] EXCEPT !.flag = {}]
       ELSE v.bases[b]]

\* Mutant of ClearSyncedBits: the bits of the previous sync are kept.
ClearSyncedBitsKeep(v) == v.bases

\* Clear visible and selectable flags to be reset (layer.c 739-742).
ClearSyncedBits(v) ==
  [b \in DOMAIN v.bases |->
     IF b \in Range(v.object_bases)
       THEN [v.bases[b] EXCEPT !.flag = @ \ SyncedBits]
       ELSE v.bases[b]]

\* Always set a valid active collection (layer.c 767-775).  A dangling
\* pointer stays what it is here; reading through it is resolved by the caller.
SyncActive(L, roots, active) ==
  IF active = DANGLING THEN DANGLING
  ELSE IF active # NULL /\ LAYER_COLLECTION_EXCLUDE \in L[active].flag
    THEN BKE_layer_collection_activate_parent(L, roots, active)
  ELSE IF active = NULL THEN First(roots)
  ELSE active

\* The state handed to the recursive sync by BKE_layer_collection_sync.
SyncStart(v) ==
  [lcs |-> v.lcs, vl |-> v.layer_collections, active |-> v.active_collection,
   bases |-> ClearSyncedBits(v), old |-> v.object_bases, new |-> <<>>,
   hash |-> IF v.object_bases_hash.present THEN v.object_bases_hash.entries
            ELSE view_layer_bases_hash_create(v),
   used |-> (DOMAIN v.lcs) \cup ({v.active_collection} \ {NULL, DANGLING}),
   usedb |-> (DOMAIN v.bases) \cup ({v.basact} \ {NULL}),
   ok |-> TRUE]

\* The recursive sync of the whole tree, as BKE_layer_collection_sync calls it.
SyncRun(v) ==
  layer_collection_sync(SyncStart(v), <<master_collection>>, v.layer_collections, TRUE, {}, {})

\* BLI_ghash_remove(hash, key, NULL, NULL): the entry a lookup of key finds
\* is taken out; other entries stay, whatever their key.
BLI_ghash_remove(entries, key) ==
  IF \E e \in entries : e[1] = key
    THEN entries \ {CHOOSE e \in entries : e[1] = key}
    ELSE entries

\* The loop over the Bases left in the old list (layer.c 756-762).
RECURSIVE GhashRemoveEach(_, _, _)
GhashRemoveEach(entries, B, todo) ==
  IF todo = <<>> THEN entries
  ELSE GhashRemoveEach(BLI_ghash_remove(entries, B[Head(todo)].object), B, Tail(todo))

\* Mutant of RemoveRemaining: the removed Bases stay in the hash.
RemoveRemainingKeepHash(st, v) ==
  LET gone == Range(st.old)
  IN  [bases |-> Restrict(st.bases, DOMAIN st.bases \ gone),
       entries |-> st.hash,
       basact |-> IF v.basact \in gone THEN NULL ELSE v.basact]

\* Mutant of FreeArray: the array is left as it is.
FreeArrayKeep(v) == v.object_bases_array

\* MEM_SAFE_FREE(view_layer->object_bases_array)
FreeArray(v) == [present |-> FALSE, items |-> <<>>]

\* Mutant of RemoveRemaining: the active Base reference is left as it is.
RemoveRemainingKeepActive(st, v) ==
  LET gone == Range(st.old)
  IN  [bases |-> Restrict(st.bases, DOMAIN st.bases \ gone),
       entries |-> GhashRemoveEach(st.hash, st.bases, st.old),
       basact |-> v.basact]

\* Any remaining object bases are to be removed (layer.c 755-765).
RemoveRemaining(st, v) ==
  LET gone == Range(st.old)
  IN  [bases |-> Restrict(st.bases, DOMAIN st.bases \ gone),
       entries |-> GhashRemoveEach(st.hash, st.bases, st.old),
       basact |-> IF v.basact \in gone THEN NULL ELSE v.basact]

BKE_layer_collection_sync(v) ==
  IF master_collection = NoCollection THEN v
  ELSE LET r == SyncRun(v)
           st == r.st
           rem == RemoveRemaining(st, v)
       IN  [lcs |-> st.lcs,
            layer_collections |-> r.lb,
            active_collection |-> SyncActive(st.lcs, r.lb, st.active),
            bases |-> rem.bases,
            object_bases |-> st.new,
            object_bases_hash |-> [present |-> TRUE, entries |-> rem.entries],
            object_bases_array |-> FreeArray(v),
            basact |-> rem.basact]

\* The assertion at the end of every layer_collection_sync call held.
SyncAssertOk(v) == SyncRun(v).st.ok

(* ------------------------------------------------------------------ *)
(* Initial states: a scene, and a view layer as view_layer_add         *)
(* allocates it (MEM_callocN), before its first sync.                 *)
(* ------------------------------------------------------------------ *)

\* The scenes a view layer is added to: the collection DAG as other
\* subsystems (or a loaded file) left it.  Flags start clear.
EmptyLists == [c \in Collections |-> <<>>]

Scenes ==
  { \* a new scene: the master collection only
    [children |-> EmptyLists, parents |-> EmptyLists, gobject |-> EmptyLists],
    \* root -> {A, B}, o1 in A
    [children |-> [EmptyLists EXCEPT !["M"] = <<"A", "B">>],
     parents  |-> [EmptyLists EXCEPT !["A"] = <<"M">>, !["B"] = <<"M">>],
     gobject  |-> [EmptyLists EXCEPT !["A"] = <<"o1">>]],
    \* root -> {A, B}, B -> {A}: A has two parents; o1 in A and in B, o2 in B
    [children |-> [EmptyLists EXCEPT !["M"] = <<"A", "B">>, !["B"] = <<"A">>],
     parents  |-> [EmptyLists EXCEPT !["A"] = <<"M", "B">>, !["B"] = <<"M">>],
     gobject  |-> [EmptyLists EXCEPT !["A"] = <<"o1">>, !["B"] = <<"o2", "o1">>]],
    \* root -> A -> B, o2 in A, o1 in B
    [children |-> [EmptyLists EXCEPT !["M"] = <<"A">>, !["A"] = <<"B">>],
     parents  |-> [EmptyLists EXCEPT !["A"] = <<"M">>, !["B"] = <<"A">>],
     gobject  |-> [EmptyLists EXCEPT !["A"] = <<"o2">>, !["B"] = <<"o1">>]],
    \* root -> A, three objects in A, the middle one also in the root
    [children |-> [EmptyLists EXCEPT !["M"] = <<"A">>],
     parents  |-> [EmptyLists EXCEPT !["A"] = <<"M">>],
     gobject  |-> [EmptyLists EXCEPT !["M"] = <<"o2">>, !["A"] = <<"o1", "o2", "o3">>]] }

\* No thread is inside BKE_view_layer_base_find; the mutex is free.
IdleThread == [pc |-> "idle", ob |-> "none", i |-> 0, ret |-> NULL]

InitFind ==
  /\ hash_lock = NULL
  /\ threads = [t \in Threads |-> IdleThread]

\* view_layer_add: MEM_callocN leaves no override set and active index 0.
InitOverride ==
  /\ override_sets = <<>>
  /\ active_override_set = 0
  /\ osets = <<>>
  /\ props = <<>>

\* No call of BKE_dynamic_override_apply was made.
IdleApply == [id |-> "none", called |-> FALSE, log |-> <<>>, target |-> <<>>]

\* A NULL Base pointer; a Base is <<scene, view layer, position>>.
NoBase == <<>>

\* No iterator was begun: BLI_ITERATOR_INIT leaves it valid and not skip.
IdleIter ==
  [fn |-> "none", data_in |-> <<>>, valid |-> TRUE, skip |-> FALSE,
   current |-> NoBase, data |-> NoBase, yielded |-> <<>>]

\* No call of BKE_layer_collection_sync is running.
IdleWalk == [pc |-> "idle", stack |-> <<>>, lc |-> NULL]

InitIter ==
  /\ walk = IdleWalk
  /\ apply = IdleApply
  /\ iter_scenes = <<>>
  /\ iter_objects = <<>>
  /\ iter = IdleIter

\* view_layer_add: the view layer before its first sync.
InitViewLayer ==
  /\ lcs = <<>>
  /\ layer_collections = <<>>
  /\ active_collection = NULL
  /\ bases = <<>>
  /\ object_bases = <<>>
  /\ object_bases_hash = [present |-> FALSE, entries |-> {}]
  /\ object_bases_array = [present |-> FALSE, items |-> <<>>]
  /\ basact = NULL
  /\ synced = FALSE
  /\ ops = 0

Init ==
  /\ \E s \in Scenes :
       /\ children = s.children
       /\ parents = s.parents
       /\ gobject = s.gobject
  /\ cflag = [c \in Collections |-> IF c = master_collection THEN {COLLECTION_IS_MASTER} ELSE {}]
  /\ InitViewLayer
  /\ InitFind
  /\ InitOverride
  /\ InitIter

(* ------------------------------------------------------------------ *)
(* The scene side: edits of the collection DAG by other subsystems    *)
(* ------------------------------------------------------------------ *)

RECURSIVE Descendants(_, _)
Descendants(ch, c) ==
  Range(ch[c]) \cup UNION {Descendants(ch, d) : d \in Range(ch[c])}

\* BKE_collection_child_add: link child under parent, unless that makes a cycle.
CollectionChildAdd(parent, child) ==
  /\ ops < MaxOps
  /\ child # master_collection
  /\ child # parent
  /\ child \notin Range(children[parent])
  /\ parent \notin Descendants(children, child)
  /\ children' = [children EXCEPT ![parent] = Append(@, child)]
  /\ parents' = [parents EXCEPT ![child] = Append(@, parent)]
  /\ ops' = ops + 1
  /\ synced' = FALSE
  /\ UNCHANGED <<gobject, cflag, viewVars>>
  /\ UNCHANGED <<findVars, overrideVars, iterVars>>

\* BKE_collection_child_remove
CollectionChildRemove(parent, child) ==
  /\ ops < MaxOps
  /\ child \in Range(children[parent])
  /\ children' = [children EXCEPT ![parent] = Remlink(@, child)]
  /\ parents' = [parents EXCEPT ![child] = Remlink(@, parent)]
  /\ ops' = ops + 1
  /\ synced' = FALSE
  /\ UNCHANGED <<gobject, cflag, viewVars>>
  /\ UNCHANGED <<findVars, overrideVars, iterVars>>

\* BKE_collection_object_add
CollectionObjectAdd(collection, ob) ==
  /\ ops < MaxOps
  /\ ob \notin Range(gobject[collection])
  /\ gobject' = [gobject EXCEPT ![collection] = Append(@, ob)]
  /\ ops' = ops + 1
  /\ synced' = FALSE
  /\ UNCHANGED <<children, parents, cflag, viewVars>>
  /\ UNCHANGED <<findVars, overrideVars, iterVars>>

\* BKE_collection_object_remove
CollectionObjectRemove(collection, ob) ==
  /\ ops < MaxOps
  /\ ob \in Range(gobject[collection])
  /\ gobject' = [gobject EXCEPT ![collection] = Remlink(@, ob)]
  /\ ops' = ops + 1
  /\ synced' = FALSE
  /\ UNCHANGED <<children, parents, cflag, viewVars>>
  /\ UNCHANGED <<findVars, overrideVars, iterVars>>

\* A restriction flag of a collection is switched.
CollectionFlagToggle(collection, bit) ==
  /\ ops < MaxOps
  /\ cflag' = [cflag EXCEPT ![collection] = IF bit \in @ THEN @ \ {bit} ELSE @ \cup {bit}]
  /\ ops' = ops + 1
  /\ synced' = FALSE
  /\ UNCHANGED <<children, parents, gobject, viewVars>>
  /\ UNCHANGED <<findVars, overrideVars, iterVars>>

\* ID remap sets lc->collection to NULL (layer.c 634).
RemapClearCollection(lc) ==
  /\ ops < MaxOps
  /\ lcs[lc].collection # NoCollection
  /\ lcs' = [lcs EXCEPT ![lc].collection = NoCollection]
  /\ ops' = ops + 1
  /\ synced' = FALSE
  /\ UNCHANGED <<sceneVars, layer_collections, active_collection, bases, object_bases,
                 object_bases_hash, object_bases_array, basact>>
  /\ UNCHANGED <<findVars, overrideVars, iterVars>>

(* ------------------------------------------------------------------ *)
(* The view side: operations of the user                              *)
(* ------------------------------------------------------------------ *)

\* The user switches the exclude flag of a layer collection.
LayerCollectionExcludeToggle(lc) ==
  /\ ops < MaxOps
  /\ lcs' = [lcs EXCEPT ![lc].flag = IF LAYER_COLLECTION_EXCLUDE \in @
                                       THEN @ \ {LAYER_COLLECTION_EXCLUDE}
                                       ELSE @ \cup {LAYER_COLLECTION_EXCLUDE}]
  /\ ops' = ops + 1
  /\ synced' = FALSE
  /\ UNCHANGED <<sceneVars, layer_collections, active_collection, bases, object_bases,
                 object_bases_hash, object_bases_array, basact>>
  /\ UNCHANGED <<findVars, overrideVars, iterVars>>

\* Mutant of layer_collection_activate: the EXCLUDE flag is not tested.
layer_collection_activate_any(v, lc) ==
  [ret |-> TRUE, active_collection |-> lc]

\* BKE_layer_collection_activate: what it returns and the active layer
\* collection it leaves (layer.c 523-532).
layer_collection_activate(v, lc) ==
  IF LAYER_COLLECTION_EXCLUDE \in v.lcs[lc].flag
    THEN [ret |-> FALSE, active_collection |-> v.active_collection]
    ELSE [ret |-> TRUE, active_collection |-> lc]

\* BKE_layer_collection_activate: refused (false) for an excluded collection.
BKE_layer_collection_activate(lc) ==
  /\ ops < MaxOps
  /\ active_collection' = layer_collection_activate(View, lc).active_collection
  /\ ops' = ops + 1
  /\ synced' = FALSE
  /\ UNCHANGED <<sceneVars, lcs, layer_collections, bases, object_bases,
                 object_bases_hash, object_bases_array, basact>>
  /\ UNCHANGED <<findVars, overrideVars, iterVars>>

\* BKE_view_layer_base_select
BKE_view_layer_base_select(selbase) ==
  /\ ops < MaxOps
  /\ basact' = selbase
  /\ bases' = IF BASE_SELECTABLED \in bases[selbase].flag
                THEN [bases EXCEPT ![selbase].flag = @ \cup {BASE_SELECTED}]
                ELSE bases
  /\ ops' = ops + 1
  /\ synced' = FALSE
  /\ UNCHANGED <<sceneVars, lcs, layer_collections, active_collection, object_bases,
                 object_bases_hash, object_bases_array>>
  /\ UNCHANGED <<findVars, overrideVars, iterVars>>

(* ------------------------------------------------------------------ *)
(* The operations of layer.c on the view                              *)
(* ------------------------------------------------------------------ *)

\* What reading view_layer->active_collection->flag through a dangling
\* pointer can give: the pointer is kept, or (the freed block reused, or a
\* stale EXCLUDE bit and collection read) any layer collection is activated.
ActiveOutcomes(r) ==
  IF r.active_collection = DANGLING
    THEN {DANGLING} \cup DOMAIN r.lcs
    ELSE {r.active_collection}

SetView(r) ==
  /\ lcs' = r.lcs
  /\ layer_collections' = r.layer_collections
  /\ bases' = r.bases
  /\ object_bases' = r.object_bases
  /\ object_bases_hash' = r.object_bases_hash
  /\ object_bases_array' = r.object_bases_array
  /\ basact' = r.basact

Sync ==
  /\ LET r == BKE_layer_collection_sync(View)
     IN  /\ SetView(r)
         /\ active_collection' \in ActiveOutcomes(r)
  /\ synced' = TRUE
  /\ UNCHANGED <<sceneVars, ops>>
  /\ UNCHANGED <<findVars, overrideVars, iterVars>>

\* BKE_main_collection_sync_remap: free the caches of the view, then sync.
RemapFreeCaches(v) ==
  [v EXCEPT !.object_bases_array = FreeArray(v),
            !.object_bases_hash = [present |-> FALSE, entries |-> {}]]

BKE_main_collection_sync_remap ==
  /\ LET r == BKE_layer_collection_sync(RemapFreeCaches(View))
     IN  /\ SetView(r)
         /\ active_collection' \in ActiveOutcomes(r)
  /\ synced' = TRUE
  /\ UNCHANGED <<sceneVars, ops>>
  /\ UNCHANGED <<findVars, overrideVars, iterVars>>

\* BKE_view_layer_base_find: builds the hash on first use, then looks up.
HashEnsure(v) ==
  IF v.object_bases_hash.present THEN v.object_bases_hash
  ELSE [present |-> TRUE, entries |-> view_layer_bases_hash_create(v)]

BaseFindResult(v, ob) == GhashLookup(HashEnsure(v).entries, ob)

BKE_view_layer_base_find(ob) ==
  /\ ~object_bases_hash.present
  /\ object_bases_hash' = HashEnsure(View)
  /\ UNCHANGED <<sceneVars, lcs, layer_collections, active_collection, bases, object_bases,
                 object_bases_array, basact, synced, ops>>
  /\ UNCHANGED <<findVars, overrideVars, iterVars>>

\* Mutant of EvalBaseFlag: VISIBLED is set for the mode's bit but never cleared,
\* and SELECTED is left alone.
EvalBaseFlagSetOnly(flag, base_flag) ==
  IF base_flag \in flag THEN flag \cup {BASE_VISIBLED} ELSE flag

\* BKE_layer_eval_view_layer for one evaluation mode.
EvalBaseFlag(flag, base_flag) ==
  LET f1 == IF base_flag \in flag THEN flag \cup {BASE_VISIBLED} ELSE flag \ {BASE_VISIBLED}
  IN  IF BASE_SELECTABLED \notin f1 THEN f1 \ {BASE_SELECTED} ELSE f1

EvalArray(list) == [present |-> TRUE, items |-> list]

BKE_layer_eval_view_layer(base_flag) ==
  /\ bases' = [b \in DOMAIN bases |->
                 IF b \in Range(object_bases)
                   THEN [bases[b] EXCEPT !.flag = EvalBaseFlag(@, base_flag)]
                   ELSE bases[b]]
  /\ object_bases_array' = EvalArray(object_bases)
  /\ synced' = FALSE
  /\ UNCHANGED <<sceneVars, lcs, layer_collections, active_collection, object_bases,
                 object_bases_hash, basact, ops>>
  /\ UNCHANGED <<findVars, overrideVars, iterVars>>

Next ==
  \/ \E p \in Collections, c \in Collections : CollectionChildAdd(p, c)
  \/ \E p \in Collections, c \in Collections : CollectionChildRemove(p, c)
  \/ \E c \in Collections, ob \in Objects : CollectionObjectAdd(c, ob)
  \/ \E c \in Collections, ob \in Objects : CollectionObjectRemove(c, ob)
  \/ \E c \in Collections, bit \in RestrictBits : CollectionFlagToggle(c, bit)
  \/ \E lc \in DOMAIN lcs : RemapClearCollection(lc)
  \/ \E lc \in DOMAIN lcs : LayerCollectionExcludeToggle(lc)
  \/ \E lc \in DOMAIN lcs : BKE_layer_collection_activate(lc)
  \/ \E b \in DOMAIN bases : BKE_view_layer_base_select(b)
  \/ Sync
  \/ BKE_main_collection_sync_remap
  \/ \E ob \in Objects : BKE_view_layer_base_find(ob)
  \/ \E base_flag \in {BASE_VISIBLE_VIEWPORT, BASE_VISIBLE_RENDER} : BKE_layer_eval_view_layer(base_flag)

Spec == Init /\ [][Next]_vars

\* ID remap of object pointers, as BKE_main_collection_sync_remap expects it to
\* have happened (layer.c 799): every Base and every collection link that
\* referenced old_ob references new_ob; a collection that held both keeps one
\* link.  The hash, keyed by pointer, is not told.
RemapObject(old_ob, new_ob) ==
  /\ ops < MaxOps
  /\ old_ob # new_ob
  /\ \E b \in Range(object_bases) : bases[b].object = old_ob
  /\ gobject' = [c \in Collections |->
                   IF new_ob \in Range(gobject[c])
                     THEN Remlink(gobject[c], old_ob)
                     ELSE [i \in DOMAIN gobject[c] |->
                             IF gobject[c][i] = old_ob THEN new_ob ELSE gobject[c][i]]]
  /\ bases' = [b \in DOMAIN bases |->
                 IF bases[b].object = old_ob THEN [bases[b] EXCEPT !.object = new_ob]
                 ELSE bases[b]]
  /\ ops' = ops + 1
  /\ synced' = FALSE
  /\ UNCHANGED <<children, parents, cflag, lcs, layer_collections, active_collection,
                 object_bases, object_bases_hash, object_bases_array, basact>>
  /\ UNCHANGED <<findVars, overrideVars, iterVars>>

\* Remapping of pointers, each followed sooner or later by
\* BKE_main_collection_sync_remap, the only sync here.
RemapNext ==
  \/ \E c \in Collections, ob \in Objects : CollectionObjectAdd(c, ob)
  \/ \E c \in Collections, ob \in Objects : CollectionObjectRemove(c, ob)
  \/ \E lc \in DOMAIN lcs : RemapClearCollection(lc)
  \/ \E old_ob \in Objects, new_ob \in Objects : RemapObject(old_ob, new_ob)
  \/ \E b \in DOMAIN bases : BKE_view_layer_base_select(b)
  \/ BKE_main_collection_sync_remap
  \/ \E ob \in Objects : BKE_view_layer_base_find(ob)
  \/ \E base_flag \in {BASE_VISIBLE_VIEWPORT, BASE_VISIBLE_RENDER} : BKE_layer_eval_view_layer(base_flag)

SpecRemap == Init /\ [][RemapNext]_vars

\* Activation, exclusion, edits of the child links and syncs only: no ID
\* remap clears a collection pointer.
ActivateNext ==
  \/ \E p \in Collections, c \in Collections : CollectionChildAdd(p, c)
  \/ \E p \in Collections, c \in Collections : CollectionChildRemove(p, c)
  \/ \E lc \in DOMAIN lcs : LayerCollectionExcludeToggle(lc)
  \/ \E lc \in DOMAIN lcs : BKE_layer_collection_activate(lc)
  \/ Sync

SpecActivate == Init /\ [][ActivateNext]_vars

(* ------------------------------------------------------------------ *)
(* Concurrent BKE_view_layer_base_find: one step per statement        *)
(* ------------------------------------------------------------------ *)

\* The view layer view_layer_add allocates.
EmptyView ==
  [lcs |-> <<>>, layer_collections |-> <<>>, active_collection |-> NULL, bases |-> <<>>,
   object_bases |-> <<>>, object_bases_hash |-> [present |-> FALSE, entries |-> {}],
   object_bases_array |-> [present |-> FALSE, items |-> <<>>], basact |-> NULL]

\* BKE_view_layer_copy_data: the copy has the Bases and no array and no hash.
ViewLayerCopy(v) ==
  [v EXCEPT !.object_bases_array = [present |-> FALSE, items |-> <<>>],
            !.object_bases_hash = [present |-> FALSE, entries |-> {}]]

\* A scene and the copy of a synced view layer, which evaluation threads
\* are about to query.
FindInit ==
  /\ \E s \in Scenes :
       /\ children = s.children
       /\ parents = s.parents
       /\ gobject = s.gobject
  /\ cflag = [c \in Collections |-> IF c = master_collection THEN {COLLECTION_IS_MASTER} ELSE {}]
  /\ LET v == ViewLayerCopy(BKE_layer_collection_sync(EmptyView))
     IN  /\ lcs = v.lcs
         /\ layer_collections = v.layer_collections
         /\ active_collection = v.active_collection
         /\ bases = v.bases
         /\ object_bases = v.object_bases
         /\ object_bases_hash = v.object_bases_hash
         /\ object_bases_array = v.object_bases_array
         /\ basact = v.basact
  /\ synced = FALSE
  /\ ops = 0
  /\ InitFind
  /\ InitOverride
  /\ InitIter

findFrame == <<sceneVars, lcs, layer_collections, active_collection, bases, object_bases,
               object_bases_array, basact, synced, ops, overrideVars, iterVars>>

\* Line 362: thread t enters BKE_view_layer_base_find(view_layer, ob) and
\* tests view_layer->object_bases_hash.
FindCall(t, ob) ==
  /\ threads[t].pc = "idle"
  /\ threads' = [threads EXCEPT ![t] = [@ EXCEPT !.ob = ob,
                   !.pc = IF object_bases_hash.present THEN "lookup" ELSE "create"]]
  /\ UNCHANGED <<findFrame, object_bases_hash, hash_lock>>

\* Line 347: the test in view_layer_bases_hash_create, outside the mutex.
CreateTest(t) ==
  /\ threads[t].pc = "create"
  /\ threads' = [threads EXCEPT ![t].pc =
                   IF object_bases_hash.present THEN "lookup" ELSE "lock"]
  /\ UNCHANGED <<findFrame, object_bases_hash, hash_lock>>

\* Line 348: BLI_mutex_lock(&hash_lock).
CreateLock(t) ==
  /\ threads[t].pc = "lock"
  /\ hash_lock = NULL
  /\ hash_lock' = t
  /\ threads' = [threads EXCEPT ![t].pc = "new"]
  /\ UNCHANGED <<findFrame, object_bases_hash>>

\* Line 350: view_layer->object_bases_hash = BLI_ghash_new(...).
CreateNew(t) ==
  /\ threads[t].pc = "new"
  /\ object_bases_hash' = [present |-> TRUE, entries |-> {}]
  /\ threads' = [threads EXCEPT ![t] = [@ EXCEPT !.pc = "insert", !.i = 1]]
  /\ UNCHANGED <<findFrame, hash_lock>>

\* Lines 352-354: one iteration of the loop over the Base list.
CreateInsert(t) ==
  /\ threads[t].pc = "insert"
  /\ IF threads[t].i <= Len(object_bases)
       THEN LET base == object_bases[threads[t].i]
            IN  /\ object_bases_hash' = [object_bases_hash EXCEPT
                                           !.entries = @ \cup {<<bases[base].object, base>>}]
                /\ threads' = [threads EXCEPT ![t].i = @ + 1]
       ELSE /\ threads' = [threads EXCEPT ![t].pc = "unlock"]
            /\ UNCHANGED object_bases_hash
  /\ UNCHANGED <<findFrame, hash_lock>>

\* Line 356: BLI_mutex_unlock(&hash_lock).
CreateUnlock(t) ==
  /\ threads[t].pc = "unlock"
  /\ hash_lock' = NULL
  /\ threads' = [threads EXCEPT ![t].pc = "lookup"]
  /\ UNCHANGED <<findFrame, object_bases_hash>>

\* Line 366: return BLI_ghash_lookup(view_layer->object_bases_hash, ob).
FindLookup(t) ==
  /\ threads[t].pc = "lookup"
  /\ threads' = [threads EXCEPT ![t] = [@ EXCEPT !.pc = "done",
                   !.ret = GhashLookup(object_bases_hash.entries, threads[t].ob)]]
  /\ UNCHANGED <<findFrame, object_bases_hash, hash_lock>>

FindNext ==
  \/ \E t \in Threads, ob \in Objects : FindCall(t, ob)
  \/ \E t \in Threads : CreateTest(t)
  \/ \E t \in Threads : CreateLock(t)
  \/ \E t \in Threads : CreateNew(t)
  \/ \E t \in Threads : CreateInsert(t)
  \/ \E t \in Threads : CreateUnlock(t)
  \/ \E t \in Threads : FindLookup(t)

SpecFind == FindInit /\ [][FindNext]_vars

(* ------------------------------------------------------------------ *)
(* Dynamic override sets of a view layer                              *)
(* ------------------------------------------------------------------ *)

\* Bound: the override sets of the view layer, their affected collections and
\* their properties, all counted together.
MaxSize == 4

\* ARRAY_SIZE(((DynamicOverrideProperty *)NULL)->data.i); the model needs
\* only the comparison of an array length with it.
DataArraySize == 4

DYN_OVERRIDE_SET_USE == "SET_USE"

DYN_OVERRIDE_PROP_USE == "PROP_USE"

IDOVERRIDESTATIC_OP_REPLACE == "REPLACE"

DYN_OVERRIDE_PROP_TYPE_SCENE == "TYPE_SCENE"

DYN_OVERRIDE_PROP_TYPE_COLLECTION == "TYPE_COLLECTION"

\* GS(owner_id->name) of the owners tried: the five kinds the switch knows
\* and one it does not.
IdTypes == {"ID_OB", "ID_ME", "ID_MA", "ID_SCE", "ID_WO", "ID_LA"}

\* Pointers handed to the remove functions: every live one and one more.
SetIds == 1..(MaxSize + 1)

PropIds == 1..(MaxSize + 1)

\* The override side of the view layer as one record.
OverrideView ==
  [override_sets |-> override_sets, active_override_set |-> active_override_set,
   osets |-> osets, props |-> props]

\* BLI_findindex: the 0-based position of x in the list, -1 when absent.
BLI_findindex(s, x) ==
  IF x \in Range(s)
    THEN (CHOOSE i \in DOMAIN s : s[i] = x /\ \A j \in 1..(i - 1) : s[j] # x) - 1
    ELSE 0 - 1

MAX2(a, b) == IF a > b THEN a ELSE b

\* Mutant of override_set_add: the active index is left as it is.
override_set_add_keep_active(o) ==
  LET set == FreshId(DOMAIN o.osets)
      lb == Append(o.override_sets, set)
  IN  [ret |-> set,
       o |-> [o EXCEPT !.osets = o.osets @@ (set :>
                          [flag |-> {DYN_OVERRIDE_SET_USE},
                           affected_collections |-> <<>>,
                           active_affected_collection |-> 0,
                           scene_properties |-> <<>>,
                           collection_properties |-> <<>>]),
                       !.override_sets = lb]]

\* BKE_view_layer_override_set_add: [ret, o]
override_set_add(o) ==
  LET set == FreshId(DOMAIN o.osets)
      lb == Append(o.override_sets, set)
  IN  [ret |-> set,
       o |-> [o EXCEPT !.osets = o.osets @@ (set :>
                          [flag |-> {DYN_OVERRIDE_SET_USE},
                           affected_collections |-> <<>>,
                           active_affected_collection |-> 0,
                           scene_properties |-> <<>>,
                           collection_properties |-> <<>>]),
                       !.override_sets = lb,
                       !.active_override_set = Len(lb) - 1]]

\* override_set_free: the properties of the set are freed with it.
override_set_free(o, set) ==
  LET mine == Range(o.osets[set].scene_properties) \cup Range(o.osets[set].collection_properties)
  IN  [o EXCEPT !.props = Restrict(o.props, DOMAIN o.props \ mine),
                !.osets = Restrict(o.osets, DOMAIN o.osets \ {set})]

\* Mutant of override_set_remove: the active index is only kept inside the
\* list, not moved with the set it designates.
override_set_remove_clamp(o, set) ==
  LET override_set_index == BLI_findindex(o.override_sets, set)
  IN  IF override_set_index = 0 - 1
        THEN [ret |-> FALSE, o |-> o]
        ELSE LET lb == Remlink(o.override_sets, set)
                 o1 == override_set_free([o EXCEPT !.override_sets = lb], set)
             IN  [ret |-> TRUE,
                  o |-> [o1 EXCEPT !.active_override_set =
                           IF @ >= Len(lb) THEN MAX2(0, Len(lb) - 1) ELSE @]]

\* Mutant of override_set_remove: the active index is not fixed up.
override_set_remove_no_fixup(o, set) ==
  LET override_set_index == BLI_findindex(o.override_sets, set)
  IN  IF override_set_index = 0 - 1
        THEN [ret |-> FALSE, o |-> o]
        ELSE [ret |-> TRUE,
              o |-> override_set_free([o EXCEPT !.override_sets = Remlink(o.override_sets, set)],
                                      set)]

\* BKE_view_layer_override_set_remove: [ret, o]
override_set_remove(o, set) ==
  LET override_set_index == BLI_findindex(o.override_sets, set)
  IN  IF override_set_index = 0 - 1
        THEN [ret |-> FALSE, o |-> o]
        ELSE LET lb == Remlink(o.override_sets, set)
                 o1 == override_set_free([o EXCEPT !.override_sets = lb], set)
             IN  [ret |-> TRUE,
                  o |-> [o1 EXCEPT !.active_override_set =
                           IF @ > override_set_index THEN @ - 1
                           ELSE IF @ = override_set_index /\ override_set_index = Len(lb)
                             THEN MAX2(0, override_set_index - 1)
                           ELSE @]]

\* Mutant of override_set_collection_link: the collection is appended
\* whether or not it is in the list.
override_set_collection_link_always(o, set, collection) ==
  [ret |-> TRUE,
   o |-> [o EXCEPT !.osets[set].affected_collections = Append(@, collection)]]

\* BKE_view_layer_override_set_collection_link: [ret, o]
override_set_collection_link(o, set, collection) ==
  IF collection \in Range(o.osets[set].affected_collections)
    THEN [ret |-> FALSE, o |-> o]
    ELSE [ret |-> TRUE,
          o |-> [o EXCEPT !.osets[set].affected_collections = Append(@, collection)]]

\* Mutant of override_set_collection_unlink: the active index is not fixed up.
override_set_collection_unlink_no_fixup(o, set, collection) ==
  IF collection \notin Range(o.osets[set].affected_collections)
    THEN [ret |-> FALSE, o |-> o]
    ELSE [ret |-> TRUE,
          o |-> [o EXCEPT !.osets[set].affected_collections = Remlink(@, collection)]]

\* BKE_view_layer_override_set_collection_unlink: [ret, o]
override_set_collection_unlink(o, set, collection) ==
  IF collection \notin Range(o.osets[set].affected_collections)
    THEN [ret |-> FALSE, o |-> o]
    ELSE LET collection_index == BLI_findindex(o.osets[set].affected_collections, collection)
             lb == Remlink(o.osets[set].affected_collections, collection)
         IN  [ret |-> TRUE,
              o |-> [o EXCEPT !.osets[set].affected_collections = lb,
                              !.osets[set].active_affected_collection =
                                 IF @ > collection_index THEN @ - 1
                                 ELSE IF @ = collection_index /\ collection_index = Len(lb)
                                   THEN MAX2(0, collection_index - 1)
                                 ELSE @]]

\* Mutant of PropertyType: a world is classified like an object.
PropertyTypeWorldAsMember(id_type) ==
  IF id_type \in {"ID_OB", "ID_ME", "ID_MA", "ID_WO"} THEN DYN_OVERRIDE_PROP_TYPE_COLLECTION
  ELSE IF id_type \in {"ID_SCE"} THEN DYN_OVERRIDE_PROP_TYPE_SCENE
  ELSE "none"

\* The switch on the kind of the owner (1125-1138); NULL for "return NULL".
PropertyType(id_type) ==
  IF id_type \in {"ID_OB", "ID_ME", "ID_MA"} THEN DYN_OVERRIDE_PROP_TYPE_COLLECTION
  ELSE IF id_type \in {"ID_SCE", "ID_WO"} THEN DYN_OVERRIDE_PROP_TYPE_SCENE
  ELSE "none"

\* BKE_view_layer_override_property_add: [ret, o]; rna_path_ok says whether
\* RNA_path_from_ID_to_property_index gave a path, array_len is what
\* RNA_property_array_length gave.
override_property_add(o, set, id_type, rna_path_ok, array_len) ==
  IF PropertyType(id_type) = "none" THEN [ret |-> NULL, o |-> o]
  ELSE IF ~rna_path_ok THEN [ret |-> NULL, o |-> o]
  ELSE IF array_len > DataArraySize THEN [ret |-> NULL, o |-> o]
  ELSE LET dyn_prop == FreshId(DOMAIN o.props)
           o1 == [o EXCEPT !.props = o.props @@ (dyn_prop :>
                      [flag |-> {DYN_OVERRIDE_PROP_USE},
                       operation |-> IDOVERRIDESTATIC_OP_REPLACE,
                       id_type |-> id_type,
                       property_type |-> PropertyType(id_type),
                       array_len |-> array_len])]
       IN  [ret |-> dyn_prop,
            o |-> IF PropertyType(id_type) = DYN_OVERRIDE_PROP_TYPE_SCENE
                    THEN [o1 EXCEPT !.osets[set].scene_properties = Append(@, dyn_prop)]
                    ELSE [o1 EXCEPT !.osets[set].collection_properties = Append(@, dyn_prop)]]

\* Mutant of override_property_remove: a property that is in neither list of
\* the set is freed all the same.
override_property_remove_unchecked(o, set, dyn_prop) ==
  [ret |-> dyn_prop \in Range(o.osets[set].scene_properties) \cup
                        Range(o.osets[set].collection_properties),
   o |-> [o EXCEPT !.osets[set].scene_properties = Remlink(@, dyn_prop),
                   !.osets[set].collection_properties = Remlink(@, dyn_prop),
                   !.props = Restrict(@, DOMAIN @ \ {dyn_prop})]]

\* BKE_view_layer_override_property_remove: [ret, o]
override_property_remove(o, set, dyn_prop) ==
  IF dyn_prop \in Range(o.osets[set].scene_properties)
    THEN [ret |-> TRUE,
          o |-> [o EXCEPT !.osets[set].scene_properties = Remlink(@, dyn_prop),
                          !.props = Restrict(@, DOMAIN @ \ {dyn_prop})]]
  ELSE IF dyn_prop \in Range(o.osets[set].collection_properties)
    THEN [ret |-> TRUE,
          o |-> [o EXCEPT !.osets[set].collection_properties = Remlink(@, dyn_prop),
                          !.props = Restrict(@, DOMAIN @ \ {dyn_prop})]]
  ELSE [ret |-> FALSE, o |-> o]

overrideFrame == <<sceneVars, viewVars, synced, ops, findVars, iterVars>>

SetOverrideView(o) ==
  /\ override_sets' = o.override_sets
  /\ active_override_set' = o.active_override_set
  /\ osets' = o.osets
  /\ props' = o.props

\* What the bound counts.
OverrideSize ==
  Len(override_sets) + Cardinality(DOMAIN props) +
  Cardinality({x \in (DOMAIN osets) \X Collections :
                 x[2] \in Range(osets[x[1]].affected_collections)})

BKE_view_layer_override_set_add ==
  /\ OverrideSize < MaxSize
  /\ SetOverrideView(override_set_add(OverrideView).o)
  /\ UNCHANGED overrideFrame

BKE_view_layer_override_set_remove(set) ==
  /\ SetOverrideView(override_set_remove(OverrideView, set).o)
  /\ UNCHANGED overrideFrame

BKE_view_layer_override_set_collection_link(set, collection) ==
  /\ OverrideSize < MaxSize
  /\ SetOverrideView(override_set_collection_link(OverrideView, set, collection).o)
  /\ UNCHANGED overrideFrame

BKE_view_layer_override_set_collection_unlink(set, collection) ==
  /\ SetOverrideView(override_set_collection_unlink(OverrideView, set, collection).o)
  /\ UNCHANGED overrideFrame

BKE_view_layer_override_property_add(set, id_type, rna_path_ok, array_len) ==
  /\ OverrideSize < MaxSize
  /\ SetOverrideView(override_property_add(OverrideView, set, id_type, rna_path_ok, array_len).o)
  /\ UNCHANGED overrideFrame

BKE_view_layer_override_property_remove(set, dyn_prop) ==
  /\ SetOverrideView(override_property_remove(OverrideView, set, dyn_prop).o)
  /\ UNCHANGED overrideFrame

\* The user picks the active override set, or the active affected collection
\* of a set, among those there are.
OverrideSetActiveSet(i) ==
  /\ i \in 0..(Len(override_sets) - 1)
  /\ active_override_set' = i
  /\ UNCHANGED <<overrideFrame, override_sets, osets, props>>

OverrideSetActiveAffectedCollection(set, i) ==
  /\ i \in 0..(Len(osets[set].affected_collections) - 1)
  /\ osets' = [osets EXCEPT ![set].active_affected_collection = i]
  /\ UNCHANGED <<overrideFrame, override_sets, active_override_set, props>>

\* A new view layer of a new scene.
OverrideInit ==
  /\ Init
  /\ children = EmptyLists
  /\ gobject = EmptyLists

OverrideNext ==
  \/ BKE_view_layer_override_set_add
  \/ \E set \in SetIds : BKE_view_layer_override_set_remove(set)
  \/ \E set \in DOMAIN osets, c \in Collections :
       BKE_view_layer_override_set_collection_link(set, c)
  \/ \E set \in DOMAIN osets, c \in Collections :
       BKE_view_layer_override_set_collection_unlink(set, c)
  \/ \E set \in DOMAIN osets, id_type \in {"ID_ME", "ID_WO", "ID_LA"}, rna_path_ok \in BOOLEAN,
        array_len \in {DataArraySize, DataArraySize + 1} :
       BKE_view_layer_override_property_add(set, id_type, rna_path_ok, array_len)
  \/ \E set \in DOMAIN osets, dyn_prop \in PropIds :
       BKE_view_layer_override_property_remove(set, dyn_prop)
  \/ \E i \in 0..MaxSize : OverrideSetActiveSet(i)
  \/ \E set \in DOMAIN osets, i \in 0..Cardinality(Collections) :
       OverrideSetActiveAffectedCollection(set, i)

SpecOverride == OverrideInit /\ [][OverrideNext]_vars

(* ------------------------------------------------------------------ *)
(* BKE_dynamic_override_apply (layer.c 1243-1297)                     *)
(* ------------------------------------------------------------------ *)

\* Bound: the properties of all override sets of the view together.
MaxApplyProps == 2

\* The override sets of the view the evaluation runs on: two sets, each
\* enabled or not and with or without an affected collection, and the
\* properties of ApplyPropIds, each in one list of one set.
ApplyPropIds == 1..MaxApplyProps

ApplySetIds == {1, 2}

ApplyPaths == {"p", "q"}

\* The IDs evaluation hands to the function: the scene, two objects, a mesh.
ApplyIds == {"SCE", "o1", "o2", "ME"}

\* GS(id->name)
IdTypeOf(id) ==
  IF id = "SCE" THEN "ID_SCE" ELSE IF id \in Objects THEN "ID_OB" ELSE "ID_ME"

\* The scene of the evaluated view: root -> {A, B}, o1 in A, o2 in B.
ApplyScene ==
  [children |-> [EmptyLists EXCEPT !["M"] = <<"A", "B">>],
   parents  |-> [EmptyLists EXCEPT !["A"] = <<"M">>, !["B"] = <<"M">>],
   gobject  |-> [EmptyLists EXCEPT !["A"] = <<"o1">>, !["B"] = <<"o2">>]]

\* The ids of S in increasing order: the order in which property_add
\* appended them.
RECURSIVE SortedSeq(_)
SortedSeq(S) ==
  IF S = {} THEN <<>>
  ELSE LET m == CHOOSE x \in S : \A y \in S : x <= y
       IN  <<m>> \o SortedSeq(S \ {m})

\* The value BKE_view_layer_override_property_add captured for property p.
ApplyValue(p) == 3 + (2 * p)

\* RNA_struct_dynamic_override_apply: the captured value replaces the value
\* at the property's path on the target.
RNA_struct_dynamic_override_apply(st, p) ==
  [log |-> Append(st.log, p),
   target |-> [st.target EXCEPT ![props[p].rna_path] = props[p].data]]

\* Lines 1262-1273 and 1281-1293: the properties of one list, the disabled
\* ones skipped.
RECURSIVE ApplyProperties(_, _)
ApplyProperties(list, st) ==
  IF list = <<>> THEN st
  ELSE LET dyn_prop == Head(list)
       IN  IF DYN_OVERRIDE_PROP_USE \notin props[dyn_prop].flag
             THEN ApplyProperties(Tail(list), st)
             ELSE ApplyProperties(Tail(list), RNA_struct_dynamic_override_apply(st, dyn_prop))

\* Mutant of ApplySet: the set's enabled flag is not tested.
ApplySetIgnoreUse(override_set, id_type, st) ==
  IF id_type = "ID_SCE"
    THEN ApplyProperties(osets[override_set].scene_properties, st)
    ELSE ApplyProperties(osets[override_set].collection_properties, st)

\* Lines 1255-1295: the body of the loop over the override sets.
ApplySet(override_set, id_type, st) ==
  IF DYN_OVERRIDE_SET_USE \notin osets[override_set].flag THEN st
  ELSE IF id_type = "ID_SCE"
    THEN ApplyProperties(osets[override_set].scene_properties, st)
    ELSE ApplyProperties(osets[override_set].collection_properties, st)

RECURSIVE ApplySets(_, _, _)
ApplySets(sets, id_type, st) ==
  IF sets = <<>> THEN st
  ELSE ApplySets(Tail(sets), id_type, ApplySet(Head(sets), id_type, st))

\* The whole call on an ID whose paths hold `target`.
dynamic_override_apply(id, target) ==
  LET st == [log |-> <<>>, target |-> target]
  IN  IF IdTypeOf(id) \notin {"ID_SCE", "ID_OB"} THEN st
      ELSE ApplySets(override_sets, IdTypeOf(id), st)

BKE_dynamic_override_apply(id) ==
  /\ ~apply.called
  /\ LET r == dynamic_override_apply(id, apply.target)
     IN  apply' = [id |-> id, called |-> TRUE, log |-> r.log, target |-> r.target]
  /\ UNCHANGED <<sceneVars, viewVars, synced, ops, findVars, overrideVars,
                 iter_scenes, iter_objects, iter, walk>>

\* The view layer evaluation runs on: its override sets as the add functions
\* and the user's switches left them.
ApplyInit ==
  /\ children = ApplyScene.children
  /\ parents = ApplyScene.parents
  /\ gobject = ApplyScene.gobject
  /\ cflag = [c \in Collections |-> IF c = master_collection THEN {COLLECTION_IS_MASTER} ELSE {}]
  /\ InitViewLayer
  /\ InitFind
  /\ override_sets = <<1, 2>>
  /\ active_override_set = 1
  /\ \E where \in [ApplyPropIds -> ApplySetIds \X {DYN_OVERRIDE_PROP_TYPE_SCENE,
                                                    DYN_OVERRIDE_PROP_TYPE_COLLECTION}],
        use \in [ApplyPropIds -> BOOLEAN],
        path \in [ApplyPropIds -> ApplyPaths],
        set_use \in [ApplySetIds -> BOOLEAN],
        affected \in [ApplySetIds -> {<<>>, <<"A">>}] :
       /\ props = [p \in ApplyPropIds |->
                     [flag |-> IF use[p] THEN {DYN_OVERRIDE_PROP_USE} ELSE {},
                      operation |-> IDOVERRIDESTATIC_OP_REPLACE,
                      id_type |-> IF where[p][2] = DYN_OVERRIDE_PROP_TYPE_SCENE
                                    THEN "ID_SCE" ELSE "ID_OB",
                      property_type |-> where[p][2],
                      array_len |-> 0,
                      rna_path |-> path[p],
                      data |-> ApplyValue(p)]]
       /\ osets = [set \in ApplySetIds |->
                     [flag |-> IF set_use[set] THEN {DYN_OVERRIDE_SET_USE} ELSE {},
                      affected_collections |-> affected[set],
                      active_affected_collection |-> 0,
                      scene_properties |->
                        SortedSeq({p \in ApplyPropIds :
                                     where[p] = <<set, DYN_OVERRIDE_PROP_TYPE_SCENE>>}),
                      collection_properties |->
                        SortedSeq({p \in ApplyPropIds :
                                     where[p] = <<set, DYN_OVERRIDE_PROP_TYPE_COLLECTION>>})]]
  /\ apply = [IdleApply EXCEPT !.target = [x \in ApplyPaths |-> 0]]
  /\ walk = IdleWalk
  /\ iter_scenes = <<>>
  /\ iter_objects = <<>>
  /\ iter = IdleIter

ApplyNext == \E id \in ApplyIds : BKE_dynamic_override_apply(id)

SpecApply == ApplyInit /\ [][ApplyNext]_vars

(* ------------------------------------------------------------------ *)
(* Iterator helpers (layer.c 1305-1358)                               *)
(* ------------------------------------------------------------------ *)

VIEW_LAYER_RENDER == "RENDER"

\* The view layer <<scene, position in scene->view_layers>>.
ViewAt(view_layer) == iter_scenes[view_layer[1]].view_layers[view_layer[2]]

\* base-> for a Base pointer
BaseAt(base) == ViewAt(<<base[1], base[2]>>).object_bases[base[3]]

\* view_layer->object_bases.first
FirstBase(view_layer) ==
  IF ViewAt(view_layer).object_bases = <<>> THEN NoBase
  ELSE <<view_layer[1], view_layer[2], 1>>

\* base->next
NextBase(base) ==
  IF base[3] < Len(ViewAt(<<base[1], base[2]>>).object_bases)
    THEN <<base[1], base[2], base[3] + 1>>
    ELSE NoBase

\* The Bases of a view layer, in list order.
BasesOf(view_layer) ==
  [i \in 1..Len(ViewAt(view_layer).object_bases) |-> <<view_layer[1], view_layer[2], i>>]

\* The loop of lines 1330-1337: the first Base from `base` on that has the
\* flag, NULL when the list ends before one.
RECURSIVE BasesScan(_, _)
BasesScan(base, flag) ==
  IF base = NoBase THEN NoBase
  ELSE IF flag \in BaseAt(base).flag THEN base
  ELSE BasesScan(NextBase(base), flag)

\* Mutant of object_bases_iterator_next: the next Base is taken whatever its
\* flags.
object_bases_iterator_next_any(it, flag) ==
  LET base == NextBase(it.data)
  IN  IF base # NoBase THEN [it EXCEPT !.current = base, !.data = base]
      ELSE [it EXCEPT !.valid = FALSE]

object_bases_iterator_next(it, flag) ==
  LET base == BasesScan(NextBase(it.data), flag)
  IN  IF base # NoBase THEN [it EXCEPT !.current = base, !.data = base]
      ELSE [it EXCEPT !.valid = FALSE]

object_bases_iterator_begin(it, view_layer, flag) ==
  LET base == FirstBase(view_layer)
  IN  IF base = NoBase THEN [it EXCEPT !.valid = FALSE]
      ELSE LET it1 == [it EXCEPT !.data = base]
           IN  IF flag \notin BaseAt(base).flag
                 THEN object_bases_iterator_next(it1, flag)
                 ELSE [it1 EXCEPT !.current = base]

objects_iterator_begin(it, view_layer, flag) ==
  LET r == object_bases_iterator_begin(it, view_layer, flag)
  IN  IF r.valid THEN [r EXCEPT !.current = BaseAt(r.current).object] ELSE r

objects_iterator_next(it, flag) ==
  LET r == object_bases_iterator_next(it, flag)
  IN  IF r.valid THEN [r EXCEPT !.current = BaseAt(r.current).object] ELSE r

\* BKE_object_is_libdata: the object comes from a library.
BKE_object_is_libdata(ob) == iter_objects[ob].lib

\* Mutant of selected_editable_objects_iterator_next: one step, the object
\* it lands on not tested.
selected_editable_objects_iterator_next_once(it) ==
  objects_iterator_next(it, BASE_SELECTED)

\* Lines 1425-1427: do ... while the object found is library data.
RECURSIVE selected_editable_objects_iterator_next(_)
selected_editable_objects_iterator_next(it) ==
  LET r == objects_iterator_next(it, BASE_SELECTED)
  IN  IF r.valid /\ BKE_object_is_libdata(r.current)
        THEN selected_editable_objects_iterator_next(r)
        ELSE r

selected_editable_objects_iterator_begin(it, view_layer) ==
  LET r == objects_iterator_begin(it, view_layer, BASE_SELECTED)
  IN  IF r.valid
        THEN IF ~BKE_object_is_libdata(r.current) THEN r
             ELSE selected_editable_objects_iterator_next(r)
        ELSE r

\* The caller's loop (ITER_BEGIN): after begin and after each next, a valid
\* cursor that is not marked skip hands its current element to the body; a
\* skip mark is cleared.
Consume(it) ==
  IF ~it.valid THEN it
  ELSE IF it.skip THEN [it EXCEPT !.skip = FALSE]
  ELSE [it EXCEPT !.yielded = Append(@, it.current)]

\* begin of iterator fn on data_in
Begun(fn, data_in) == [iter EXCEPT !.fn = fn, !.data_in = data_in]

iterFrame == <<sceneVars, viewVars, synced, ops, findVars, overrideVars,
               apply, iter_scenes, iter_objects, walk>>

BKE_view_layer_selected_objects_iterator_begin(data_in) ==
  /\ iter.fn = "none"
  /\ iter' = Consume(objects_iterator_begin(Begun("selected_objects", data_in), data_in, BASE_SELECTED))
  /\ UNCHANGED iterFrame

BKE_view_layer_selected_objects_iterator_next ==
  /\ iter.fn = "selected_objects"
  /\ iter.valid
  /\ iter' = Consume(objects_iterator_next(iter, BASE_SELECTED))
  /\ UNCHANGED iterFrame

BKE_view_layer_visible_objects_iterator_begin(data_in) ==
  /\ iter.fn = "none"
  /\ iter' = Consume(objects_iterator_begin(Begun("visible_objects", data_in), data_in, BASE_VISIBLED))
  /\ UNCHANGED iterFrame

BKE_view_layer_visible_objects_iterator_next ==
  /\ iter.fn = "visible_objects"
  /\ iter.valid
  /\ iter' = Consume(objects_iterator_next(iter, BASE_VISIBLED))
  /\ UNCHANGED iterFrame

BKE_view_layer_selected_editable_objects_iterator_begin(data_in) ==
  /\ iter.fn = "none"
  /\ iter' = Consume(selected_editable_objects_iterator_begin(
                       Begun("selected_editable_objects", data_in), data_in))
  /\ UNCHANGED iterFrame

BKE_view_layer_selected_editable_objects_iterator_next ==
  /\ iter.fn = "selected_editable_objects"
  /\ iter.valid
  /\ iter' = Consume(selected_editable_objects_iterator_next(iter))
  /\ UNCHANGED iterFrame

BKE_view_layer_selected_bases_iterator_begin(data_in) ==
  /\ iter.fn = "none"
  /\ iter' = Consume(object_bases_iterator_begin(Begun("selected_bases", data_in), data_in, BASE_SELECTED))
  /\ UNCHANGED iterFrame

BKE_view_layer_selected_bases_iterator_next ==
  /\ iter.fn = "selected_bases"
  /\ iter.valid
  /\ iter' = Consume(object_bases_iterator_next(iter, BASE_SELECTED))
  /\ UNCHANGED iterFrame

BKE_view_layer_visible_bases_iterator_begin(data_in) ==
  /\ iter.fn = "none"
  /\ iter' = Consume(object_bases_iterator_begin(Begun("visible_bases", data_in), data_in, BASE_VISIBLED))
  /\ UNCHANGED iterFrame

BKE_view_layer_visible_bases_iterator_next ==
  /\ iter.fn = "visible_bases"
  /\ iter.valid
  /\ iter' = Consume(object_bases_iterator_next(iter, BASE_VISIBLED))
  /\ UNCHANGED iterFrame

\* The Base lists a view layer can hold: one Base per object, in any order,
\* each with any of the given flag bits.
BaseLists(objects, bits) ==
  UNION {{s \in [1..n -> [object : objects, flag : SUBSET bits]] :
            \A i, j \in 1..n : s[i].object = s[j].object => i = j} :
         n \in 0..Cardinality(objects)}

\* Objects of type OB_MESH, in object mode, local or from a library.
MeshObjects(libs) ==
  [ob \in Objects |-> [lib |-> ob \in libs, type |-> "OB_MESH", mode |-> {}]]

\* The rest of the program: none of it moves while an iterator runs.
IterRestInit ==
  /\ children = EmptyLists
  /\ parents = EmptyLists
  /\ gobject = EmptyLists
  /\ cflag = [c \in Collections |-> IF c = master_collection THEN {COLLECTION_IS_MASTER} ELSE {}]
  /\ InitViewLayer
  /\ InitFind
  /\ InitOverride
  /\ apply = IdleApply
  /\ iter = IdleIter
  /\ walk = IdleWalk

\* One scene with one view layer, its Bases selected and visible or not, its
\* objects local or library data.
IterInit ==
  /\ IterRestInit
  /\ \E list \in BaseLists(Objects, {BASE_SELECTED, BASE_VISIBLED}) :
       iter_scenes = <<[view_layers |-> <<[flag |-> {}, object_bases |-> list]>>]>>
  /\ \E libs \in SUBSET Objects : iter_objects = MeshObjects(libs)

IterNext ==
  \/ BKE_view_layer_selected_objects_iterator_begin(<<1, 1>>)
  \/ BKE_view_layer_selected_objects_iterator_next
  \/ BKE_view_layer_visible_objects_iterator_begin(<<1, 1>>)
  \/ BKE_view_layer_visible_objects_iterator_next
  \/ BKE_view_layer_selected_editable_objects_iterator_begin(<<1, 1>>)
  \/ BKE_view_layer_selected_editable_objects_iterator_next
  \/ BKE_view_layer_selected_bases_iterator_begin(<<1, 1>>)
  \/ BKE_view_layer_selected_bases_iterator_next
  \/ BKE_view_layer_visible_bases_iterator_begin(<<1, 1>>)
  \/ BKE_view_layer_visible_bases_iterator_next

SpecIter == IterInit /\ [][IterNext]_vars

(* ------------------------------------------------------------------ *)
(* BKE_view_layer_renderable_objects_iterator (layer.c 1483-1566)     *)
(* ------------------------------------------------------------------ *)

\* Bound: the Bases of all view layers of all scenes of the chain together.
MaxIterBases == 3

\* &data->base_temp and &data->scene_temp
BaseTemp == <<0>>

SceneTemp == 0 - 1

\* scene->set: the next scene of the chain.
SceneSet(scene) == IF scene < Len(iter_scenes) THEN scene + 1 ELSE NULL

\* The view layers of a scene, in list order.
ViewLayersOf(scene) ==
  [v \in 1..Len(iter_scenes[scene].view_layers) |-> <<scene, v>>]

\* BKE_view_layer_default_render: the first view layer flagged for render,
\* the first view layer if none is.
BKE_view_layer_default_render(scene) ==
  LET flagged == SelectSeq(ViewLayersOf(scene),
                           LAMBDA vl : VIEW_LAYER_RENDER \in ViewAt(vl).flag)
  IN  IF flagged # <<>> THEN flagged[1] ELSE <<scene, 1>>

\* Lines 1488-1494: every object that has a Base in a view layer of a scene
\* of the chain gets LIB_TAG_DOIT.
RECURSIVE TaggedFrom(_)
TaggedFrom(scene) ==
  IF scene = NULL THEN {}
  ELSE {BaseAt(b).object :
          b \in UNION {Range(BasesOf(vl)) : vl \in Range(ViewLayersOf(scene))}}
       \cup TaggedFrom(SceneSet(scene))

\* Lines 1537-1544: the next view layer of the scene that is flagged for
\* render, NULL when the list ends before one.
RECURSIVE NextRenderViewLayer(_)
NextRenderViewLayer(view_layer) ==
  IF view_layer[2] >= Len(iter_scenes[view_layer[1]].view_layers) THEN <<>>
  ELSE LET n == <<view_layer[1], view_layer[2] + 1>>
       IN  IF VIEW_LAYER_RENDER \in ViewAt(n).flag THEN n
           ELSE NextRenderViewLayer(n)

\* Mutant of RenderableBase: the tag of the object is left set.
RenderableBaseKeepTag(it, base) ==
  LET ob == BaseAt(base).object
      it1 == [it EXCEPT !.data.iter_base = base]
  IN  IF ob \in it.data.tags /\ BASE_VISIBLED \in BaseAt(base).flag
        THEN [it1 EXCEPT !.skip = FALSE, !.current = ob]
        ELSE it1

\* Lines 1517-1533: there is still a Base in the current view layer.
RenderableBase(it, base) ==
  LET ob == BaseAt(base).object
      it1 == [it EXCEPT !.data.iter_base = base]
  IN  IF ob \in it.data.tags
        THEN LET it2 == [it1 EXCEPT !.data.tags = @ \ {ob}]
             IN  IF BASE_VISIBLED \in BaseAt(base).flag
                   THEN [it2 EXCEPT !.skip = FALSE, !.current = ob]
                   ELSE it2
        ELSE it1

renderable_objects_iterator_next(it0) ==
  LET it == [it0 EXCEPT !.skip = TRUE]
      data == it.data
      base == IF data.iter_base = BaseTemp THEN data.base_temp_next
              ELSE NextBase(data.iter_base)
  IN  IF base # NoBase THEN RenderableBase(it, base)
      ELSE IF data.iter_set = NULL
        THEN LET view_layer == NextRenderViewLayer(data.iter_view_layer)
             IN  IF view_layer # <<>>
                   THEN [it EXCEPT !.data.iter_view_layer = view_layer,
                                   !.data.base_temp_next = FirstBase(view_layer),
                                   !.data.iter_base = BaseTemp]
                   ELSE [it EXCEPT !.data.iter_view_layer = <<>>,
                                   !.data.scene_temp_set = data.scene,
                                   !.data.iter_set = SceneTemp]
      ELSE LET set == IF data.iter_set = SceneTemp THEN data.scene_temp_set
                      ELSE SceneSet(data.iter_set)
           IN  IF set # NULL
                 THEN [it EXCEPT !.data.iter_set = set,
                                 !.data.base_temp_next =
                                    FirstBase(BKE_view_layer_default_render(set)),
                                 !.data.iter_base = BaseTemp]
                 ELSE [it EXCEPT !.data.iter_set = NULL, !.valid = FALSE]

renderable_objects_iterator_begin(it, scene) ==
  renderable_objects_iterator_next(
    [it EXCEPT !.data = [scene |-> scene,
                         tags |-> TaggedFrom(scene),
                         iter_view_layer |-> <<scene, 1>>,
                         base_temp_next |-> FirstBase(<<scene, 1>>),
                         iter_base |-> BaseTemp,
                         iter_set |-> NULL,
                         scene_temp_set |-> NULL]])

BKE_view_layer_renderable_objects_iterator_begin(scene) ==
  /\ iter.fn = "none"
  /\ iter' = Consume(renderable_objects_iterator_begin(Begun("renderable_objects", scene), scene))
  /\ UNCHANGED iterFrame

BKE_view_layer_renderable_objects_iterator_next ==
  /\ iter.fn = "renderable_objects"
  /\ iter.valid
  /\ iter' = Consume(renderable_objects_iterator_next(iter))
  /\ UNCHANGED iterFrame

\* The view layers a scene can have: one or two, each flagged for render or
\* not, with Bases of two objects, visible or not.
RenderViewLayers ==
  [flag : SUBSET {VIEW_LAYER_RENDER},
   object_bases : BaseLists({"o1", "o2"}, {BASE_VISIBLED})]

RenderScenes ==
  {[view_layers |-> vs] :
     vs \in UNION {[1..n -> RenderViewLayers] : n \in 1..2}}

\* Number of Bases of a chain of scenes.
RECURSIVE TotalBases(_)
TotalBases(scenes) ==
  IF scenes = <<>> THEN 0
  ELSE LET vs == Head(scenes).view_layers
       IN  Len(vs[1].object_bases)
           + (IF Len(vs) > 1 THEN Len(vs[2].object_bases) ELSE 0)
           + TotalBases(Tail(scenes))

\* A scene and at most one background scene.
RenderInit ==
  /\ IterRestInit
  /\ \E scenes \in UNION {[1..n -> RenderScenes] : n \in 1..2} :
       /\ TotalBases(scenes) <= MaxIterBases
       /\ iter_scenes = scenes
  /\ iter_objects = MeshObjects({})

RenderNext ==
  \/ BKE_view_layer_renderable_objects_iterator_begin(1)
  \/ BKE_view_layer_renderable_objects_iterator_next

SpecRender == RenderInit /\ [][RenderNext]_vars

(* ------------------------------------------------------------------ *)
(* BKE_view_layer_bases_in_mode_iterator (layer.c 1574-1621)          *)
(* ------------------------------------------------------------------ *)

\* Lines 1605-1608: the test a Base has to pass.
InModeMatch(data, base) ==
  /\ BASE_SELECTED \in BaseAt(base).flag
  /\ iter_objects[BaseAt(base).object].type = iter_objects[BaseAt(data.base_active).object].type
  /\ base # data.base_active
  /\ iter_objects[BaseAt(base).object].mode \cap data.object_mode # {}

\* The loop of lines 1604-1614.
RECURSIVE InModeScan(_, _)
InModeScan(data, base) ==
  IF base = NoBase THEN NoBase
  ELSE IF InModeMatch(data, base) THEN base
  ELSE InModeScan(data, NextBase(base))

bases_in_mode_iterator_begin(it, data) ==
  IF data.base_active = NoBase THEN [it EXCEPT !.valid = FALSE]
  ELSE [it EXCEPT !.data = data, !.current = data.base_active]

bases_in_mode_iterator_next(it) ==
  LET data == it.data
      first == FirstBase(data.view_layer)
      base == IF it.current = data.base_active
                THEN IF first = data.base_active THEN NextBase(first) ELSE first
                ELSE NextBase(it.current)
      found == InModeScan(data, base)
  IN  IF found # NoBase THEN [it EXCEPT !.current = found]
      ELSE [it EXCEPT !.valid = FALSE]

BKE_view_layer_bases_in_mode_iterator_begin(data_in) ==
  /\ iter.fn = "none"
  /\ iter' = Consume(bases_in_mode_iterator_begin(Begun("bases_in_mode", data_in), data_in))
  /\ UNCHANGED iterFrame

BKE_view_layer_bases_in_mode_iterator_next ==
  /\ iter.fn = "bases_in_mode"
  /\ iter.valid
  /\ iter' = Consume(bases_in_mode_iterator_next(iter))
  /\ UNCHANGED iterFrame

\* One scene with one view layer, its Bases selected or not, its objects
\* meshes or curves, in edit mode or in object mode.
InModeInit ==
  /\ IterRestInit
  /\ \E list \in BaseLists(Objects, {BASE_SELECTED}) :
       iter_scenes = <<[view_layers |-> <<[flag |-> {}, object_bases |-> list]>>]>>
  /\ iter_objects \in [Objects -> [lib : {FALSE}, type : {"OB_MESH", "OB_CURVE"},
                                   mode : {{}, {"OB_MODE_EDIT"}}]]

\* ObjectsInModeIteratorData: the view layer, its active Base (or none), and
\* the mode asked for.
InModeNext ==
  \/ \E base_active \in Range(BasesOf(<<1, 1>>)) \cup {NoBase},
        object_mode \in {{"OB_MODE_EDIT"}, {"OB_MODE_POSE"}} :
       BKE_view_layer_bases_in_mode_iterator_begin(
         [view_layer |-> <<1, 1>>, base_active |-> base_active, object_mode |-> object_mode])
  \/ BKE_view_layer_bases_in_mode_iterator_next

SpecInMode == InModeInit /\ [][InModeNext]_vars

(* ------------------------------------------------------------------ *)
(* BKE_layer_collection_sync call by call                             *)
(* ------------------------------------------------------------------ *)

\* Mutant of activate_parent_call: the recursive call is made on the layer
\* collection the call was given, not on the parent it found.
activate_parent_call_same(L, roots, lc) ==
  LET ps == parents[L[lc].collection]
      found == IF ps # <<>>
                 THEN BKE_layer_collection_first_from_scene_collection(L, roots, Head(ps))
                 ELSE NULL
  IN  IF found # NULL /\ LAYER_COLLECTION_EXCLUDE \in L[found].flag
        THEN [recurse |-> TRUE, lc |-> lc]
        ELSE [recurse |-> FALSE, lc |-> IF found = NULL THEN First(roots) ELSE found]

\* One call of BKE_layer_collection_activate_parent (layer.c 537-559): the
\* layer collection it calls itself on, or the one it activates.
activate_parent_call(L, roots, lc) ==
  LET ps == parents[L[lc].collection]
      found == IF ps # <<>>
                 THEN BKE_layer_collection_first_from_scene_collection(L, roots, Head(ps))
                 ELSE NULL
  IN  IF found # NULL /\ LAYER_COLLECTION_EXCLUDE \in L[found].flag
        THEN [recurse |-> TRUE, lc |-> found]
        ELSE [recurse |-> FALSE, lc |-> IF found = NULL THEN First(roots) ELSE found]

walkFrame == <<sceneVars, ops, findVars, overrideVars, apply, iter_scenes, iter_objects, iter>>

\* BKE_layer_collection_sync is entered and calls layer_collection_sync on
\* the list of the master collection alone (layer.c 745-753).  A frame of
\* the stack is what the loop over lb_scene of one call has still to visit.
\* Nothing else writes the view while the call runs, so what the call will
\* have written when it returns (r, and the active layer collection the
\* recursion leaves) is fixed here and is written by SyncFinish.
SyncBegin ==
  /\ walk.pc = "idle"
  /\ walk' = [pc |-> "sync", stack |-> <<<<master_collection>>>>, lc |-> NULL,
              r |-> BKE_layer_collection_sync(View), active |-> SyncRun(View).st.active]
  /\ synced' = FALSE
  /\ UNCHANGED <<viewVars, walkFrame>>

\* The loop over lb_scene takes its next child and calls layer_collection_sync
\* on the children of that collection (layer.c 651, 671-674).
SyncCall ==
  /\ walk.pc = "sync"
  /\ LET top == walk.stack[Len(walk.stack)]
     IN  /\ top # <<>>
         /\ walk' = [walk EXCEPT !.stack =
                       Append([@ EXCEPT ![Len(@)] = Tail(top)], children[Head(top)])]
  /\ UNCHANGED <<viewVars, synced, walkFrame>>

\* A nested call of layer_collection_sync has visited its list and returns
\* (layer.c 714-717).
SyncReturn ==
  /\ walk.pc = "sync"
  /\ Len(walk.stack) > 1
  /\ walk.stack[Len(walk.stack)] = <<>>
  /\ walk' = [walk EXCEPT !.stack = SubSeq(@, 1, Len(@) - 1)]
  /\ UNCHANGED <<viewVars, synced, walkFrame>>

\* The top call returns: the Bases left over are removed and the active layer
\* collection is tested (layer.c 755-775).  Reading an active pointer that
\* dangles can give anything.
SyncFinish ==
  /\ walk.pc = "sync"
  /\ walk.stack = <<<<>>>>
  /\ LET r == walk.r
         active == walk.active
     IN  /\ SetView(r)
         /\ IF active = DANGLING
              THEN /\ active_collection' \in ActiveOutcomes(r)
                   /\ walk' = IdleWalk
                   /\ synced' = TRUE
              ELSE IF active # NULL /\ LAYER_COLLECTION_EXCLUDE \in r.lcs[active].flag
                THEN /\ active_collection' = active
                     /\ walk' = [pc |-> "fallback", stack |-> <<>>, lc |-> active]
                     /\ synced' = FALSE
                ELSE /\ active_collection' = IF active = NULL THEN First(r.layer_collections)
                                             ELSE active
                     /\ walk' = IdleWalk
                     /\ synced' = TRUE
  /\ UNCHANGED walkFrame

\* One call of BKE_layer_collection_activate_parent.
FallbackCall ==
  /\ walk.pc = "fallback"
  /\ LET c == activate_parent_call(lcs, layer_collections, walk.lc)
     IN  IF c.recurse
           THEN /\ walk' = [walk EXCEPT !.lc = c.lc]
                /\ UNCHANGED <<active_collection, synced>>
           ELSE /\ walk' = IdleWalk
                /\ active_collection' = c.lc
                /\ synced' = TRUE
  /\ UNCHANGED <<lcs, layer_collections, bases, object_bases, object_bases_hash,
                 object_bases_array, basact, walkFrame>>

\* Every prior state of the view: the tree of a scene with any layer
\* collections excluded and any of them active.
TermInit ==
  /\ \E s \in Scenes :
       /\ children = s.children
       /\ parents = s.parents
       /\ gobject = s.gobject
  /\ cflag = [c \in Collections |-> IF c = master_collection THEN {COLLECTION_IS_MASTER} ELSE {}]
  /\ \E v \in {BKE_layer_collection_sync(EmptyView)} :
         /\ \E excluded \in SUBSET DOMAIN v.lcs :
              lcs = [n \in DOMAIN v.lcs |->
                       [v.lcs[n] EXCEPT !.flag = IF n \in excluded
                                                   THEN {LAYER_COLLECTION_EXCLUDE} ELSE {}]]
         /\ layer_collections = v.layer_collections
         /\ active_collection \in DOMAIN v.lcs
         /\ bases = v.bases
         /\ object_bases = v.object_bases
         /\ object_bases_hash = v.object_bases_hash
         /\ object_bases_array = v.object_bases_array
         /\ basact = v.basact
  /\ synced = FALSE
  /\ ops = 0
  /\ InitFind
  /\ InitOverride
  /\ InitIter

\* One sync after another, each from the view the last one left.
TermNext ==
  \/ SyncBegin
  \/ SyncCall
  \/ SyncReturn
  \/ SyncFinish
  \/ FallbackCall

\* The thread that entered BKE_layer_collection_sync keeps running it.
SpecTerm ==
  /\ TermInit
  /\ [][TermNext]_vars
  /\ WF_vars(SyncCall)
  /\ WF_vars(SyncReturn)
  /\ WF_vars(SyncFinish)
  /\ WF_vars(FallbackCall)

(* ------------------------------------------------------------------ *)
(* BKE_layer_collection_objects_select                                *)
(* ------------------------------------------------------------------ *)

\* Mutant of SelectBase: BASE_SELECTABLED is not tested.
SelectBaseAny(flag, deselect) ==
  IF deselect
    THEN IF BASE_SELECTED \in flag
           THEN [changed |-> TRUE, flag |-> flag \ {BASE_SELECTED}]
           ELSE [changed |-> FALSE, flag |-> flag]
    ELSE IF BASE_SELECTED \notin flag
           THEN [changed |-> TRUE, flag |-> flag \cup {BASE_SELECTED}]
           ELSE [changed |-> FALSE, flag |-> flag]

\* What the loop does with the Base it found (layer.c 840-852).
SelectBase(flag, deselect) ==
  IF deselect
    THEN IF BASE_SELECTED \in flag
           THEN [changed |-> TRUE, flag |-> flag \ {BASE_SELECTED}]
           ELSE [changed |-> FALSE, flag |-> flag]
    ELSE IF BASE_SELECTABLED \in flag /\ BASE_SELECTED \notin flag
           THEN [changed |-> TRUE, flag |-> flag \cup {BASE_SELECTED}]
           ELSE [changed |-> FALSE, flag |-> flag]

RECURSIVE SelectObjects(_, _, _, _)
\* The loop over lc->collection->gobject (layer.c 836-855); st is the local
\* changed and the Bases as the loop has left them so far.
SelectObjects(v, st, obs, deselect) ==
  IF obs = <<>> THEN st
  ELSE LET base == BaseFindResult(v, Head(obs))
           sel == SelectBase(st.bases[base].flag, deselect)
       IN  SelectObjects(v,
                         IF base = NULL THEN st
                         ELSE [changed |-> st.changed \/ sel.changed,
                               bases |-> [st.bases EXCEPT ![base].flag = sel.flag]],
                         Tail(obs), deselect)

RECURSIVE layer_collection_objects_select(_, _, _, _)
RECURSIVE SelectChildren(_, _, _, _)
\* The loop over lc->layer_collections (layer.c 857-859).
SelectChildren(v, st, list, deselect) ==
  IF list = <<>> THEN st
  ELSE LET r == layer_collection_objects_select(v, st.bases, Head(list), deselect)
       IN  SelectChildren(v, [changed |-> st.changed \/ r.changed, bases |-> r.bases],
                          Tail(list), deselect)

\* BKE_layer_collection_objects_select (layer.c 826-862) on the Bases B:
\* what it returns and the Bases it leaves.
layer_collection_objects_select(v, B, lc, deselect) ==
  IF COLLECTION_RESTRICT_SELECT \in cflag[v.lcs[lc].collection]
    THEN [changed |-> FALSE, bases |-> B]
    ELSE SelectChildren(v,
                        IF LAYER_COLLECTION_EXCLUDE \notin v.lcs[lc].flag
                          THEN SelectObjects(v, [changed |-> FALSE, bases |-> B],
                                             gobject[v.lcs[lc].collection], deselect)
                          ELSE [changed |-> FALSE, bases |-> B],
                        v.lcs[lc].layer_collections, deselect)

BKE_layer_collection_objects_select(v, lc, deselect) ==
  layer_collection_objects_select(v, v.bases, lc, deselect)

(* ------------------------------------------------------------------ *)
(* Indices of layer collections                                       *)
(* ------------------------------------------------------------------ *)

RECURSIVE collection_from_index_by_value(_, _, _, _)
\* Mutant of collection_from_index: the counter is passed by value, so what
\* the nested lists counted is lost.
collection_from_index_by_value(L, lb, number, i) ==
  IF lb = <<>> THEN [lc |-> NULL, i |-> i]
  ELSE IF i = number THEN [lc |-> Head(lb), i |-> i]
  ELSE LET nested == collection_from_index_by_value(L, L[Head(lb)].layer_collections, number, i + 1)
       IN  IF nested.lc # NULL THEN nested
           ELSE collection_from_index_by_value(L, Tail(lb), number, i + 1)

RECURSIVE collection_from_index(_, _, _, _)
\* collection_from_index (layer.c 487-502): the layer collection found, or
\* NULL, and the counter *i as the call leaves it.
collection_from_index(L, lb, number, i) ==
  IF lb = <<>> THEN [lc |-> NULL, i |-> i]
  ELSE IF i = number THEN [lc |-> Head(lb), i |-> i]
  ELSE LET nested == collection_from_index(L, L[Head(lb)].layer_collections, number, i + 1)
       IN  IF nested.lc # NULL THEN nested
           ELSE collection_from_index(L, Tail(lb), number, nested.i)

BKE_layer_collection_from_index(v, index) ==
  collection_from_index(v.lcs, v.layer_collections, index, 0).lc

RECURSIVE collection_count(_, _)
\* collection_count (layer.c 564-571)
collection_count(L, lb) ==
  IF lb = <<>> THEN 0
  ELSE collection_count(L, L[Head(lb)].layer_collections) + 1 + collection_count(L, Tail(lb))

BKE_layer_collection_count(v) == collection_count(v.lcs, v.layer_collections)

RECURSIVE index_from_collection(_, _, _, _)
\* index_from_collection (layer.c 585-600): the index found, or -1, and the
\* counter *i as the call leaves it.
index_from_collection(L, lb, lc, i) ==
  IF lb = <<>> THEN [ret |-> 0 - 1, i |-> i]
  ELSE IF Head(lb) = lc THEN [ret |-> i, i |-> i]
  ELSE LET nested == index_from_collection(L, L[Head(lb)].layer_collections, lc, i + 1)
       IN  IF nested.ret # 0 - 1 THEN nested
           ELSE index_from_collection(L, Tail(lb), lc, nested.i)

BKE_layer_collection_findindex(v, lc) ==
  index_from_collection(v.lcs, v.layer_collections, lc, 0).ret

(* ------------------------------------------------------------------ *)
(* Reading the layer-collection tree                                  *)
(* ------------------------------------------------------------------ *)

\* Every node of the tree under a list, with its ancestors (root first).
RECURSIVE TreePaths(_, _, _)
TreePaths(L, list, above) ==
  UNION { {[lc |-> list[i], anc |-> above]} \cup
          TreePaths(L, L[list[i]].layer_collections, Append(above, list[i]))
          : i \in DOMAIN list }

Paths == TreePaths(lcs, layer_collections, <<>>)

TreeNodes == {p.lc : p \in Paths}

Excluded(lc) == LAYER_COLLECTION_EXCLUDE \in lcs[lc].flag

\* The restriction bits of the non-master collections from the root down to p.lc.
PathRestrict(p) ==
  UNION {cflag[lcs[n].collection] \cap RestrictBits :
           n \in {m \in Range(p.anc) \cup {p.lc} :
                    COLLECTION_IS_MASTER \notin cflag[lcs[m].collection]}}

\* The visits of object ob: the non-excluded nodes whose collection holds it.
VisitsOf(ob) ==
  {p \in Paths : ~Excluded(p.lc) /\ ob \in Range(gobject[lcs[p.lc].collection])}

BaseOf(ob) == {b \in Range(object_bases) : bases[b].object = ob}

HasBit(ob, bit) == \E b \in BaseOf(ob) : bit \in bases[b].flag

(* ------------------------------------------------------------------ *)
(* C1  Idempotence of sync                                            *)
(* ------------------------------------------------------------------ *)

\* C1 (as claimed): a sync that follows a sync, with nothing changed in
\* between, leaves the tree, the Base list, the flags, the caches, the active
\* layer collection and the active Base as the first sync left them.
C1_SyncIdempotent == [][(synced /\ synced') => UNCHANGED viewVars]_vars

(* ------------------------------------------------------------------ *)
(* C2  Single Base per object                                         *)
(* ------------------------------------------------------------------ *)

\* C2: after a sync the Base list holds at most one Base per object, and
\* exactly one for every object directly contained in a reachable collection
\* whose layer collection is not excluded (and none for any other object).
C2_SingleBasePerObject ==
  synced =>
    /\ \A i, j \in DOMAIN object_bases :
         bases[object_bases[i]].object = bases[object_bases[j]].object => i = j
    /\ \A ob \in Objects :
         Cardinality(BaseOf(ob)) = (IF VisitsOf(ob) # {} THEN 1 ELSE 0)

\* An object visited more than once has one Base.
C2_Witness ==
  /\ synced
  /\ \E ob \in Objects : Cardinality(VisitsOf(ob)) >= 2 /\ Cardinality(BaseOf(ob)) = 1
  /\ \E ob \in Objects : (\E c \in Collections : ob \in Range(gobject[c])) /\ BaseOf(ob) = {}

(* ------------------------------------------------------------------ *)
(* C3  Multi-path flag composition                                    *)
(* ------------------------------------------------------------------ *)

\* C3: after a sync each of the four derived bits of a Base is set exactly
\* when some visit of its object through a non-excluded layer collection
\* grants it; nothing of the four bits survives from before the sync.
C3_FlagsAreUnionOverVisits ==
  synced =>
    \A b \in Range(object_bases) :
      LET vis == {PathRestrict(p) : p \in VisitsOf(bases[b].object)}
          f == bases[b].flag
      IN  /\ (BASE_VISIBLED \in f) <=> (\E r \in vis : COLLECTION_RESTRICT_VIEW \notin r)
          /\ (BASE_VISIBLE_VIEWPORT \in f) <=> (\E r \in vis : COLLECTION_RESTRICT_VIEW \notin r)
          /\ (BASE_SELECTABLED \in f) <=>
               (\E r \in vis : COLLECTION_RESTRICT_VIEW \notin r /\ COLLECTION_RESTRICT_SELECT \notin r)
          /\ (BASE_VISIBLE_RENDER \in f) <=> (\E r \in vis : COLLECTION_RESTRICT_RENDER \notin r)

\* Two visits of one object, neither granting what the other grants.
C3_Witness ==
  /\ synced
  /\ \E ob \in Objects :
       /\ \E p, q \in VisitsOf(ob) :
            /\ COLLECTION_RESTRICT_VIEW \in PathRestrict(p)
            /\ COLLECTION_RESTRICT_RENDER \notin PathRestrict(p)
            /\ COLLECTION_RESTRICT_RENDER \in PathRestrict(q)
            /\ COLLECTION_RESTRICT_VIEW \notin PathRestrict(q)
       /\ HasBit(ob, BASE_VISIBLED)
       /\ HasBit(ob, BASE_VISIBLE_RENDER)

(* ------------------------------------------------------------------ *)
(* C4  Exclusion is not inherited                                     *)
(* ------------------------------------------------------------------ *)

\* C4: after a sync an excluded layer collection has given its own objects
\* nothing (an object held by excluded layer collections only has no Base),
\* its children are mirrored all the same, and every layer collection that is
\* not excluded, whatever its ancestors, has given each of its objects a Base
\* with the bits its path grants.
C4_ExclusionNotInherited ==
  synced =>
    \A p \in Paths :
      /\ Len(lcs[p.lc].layer_collections) = Len(children[lcs[p.lc].collection])
      /\ \A ob \in Range(gobject[lcs[p.lc].collection]) :
           IF Excluded(p.lc)
             THEN (\A q \in Paths : ob \in Range(gobject[lcs[q.lc].collection]) => Excluded(q.lc))
                    => BaseOf(ob) = {}
             ELSE \E b \in BaseOf(ob) :
                    /\ (COLLECTION_RESTRICT_VIEW \notin PathRestrict(p) => BASE_VISIBLED \in bases[b].flag)
                    /\ (COLLECTION_RESTRICT_RENDER \notin PathRestrict(p) => BASE_VISIBLE_RENDER \in bases[b].flag)

\* An excluded layer collection whose own object has no Base, above a child
\* that is not excluded and whose object has a visible Base.
C4_Witness ==
  /\ synced
  /\ \E p, q \in Paths :
       /\ Excluded(p.lc)
       /\ p.lc \in Range(q.anc)
       /\ ~Excluded(q.lc)
       /\ \E ob \in Range(gobject[lcs[p.lc].collection]) : BaseOf(ob) = {}
       /\ \E ob \in Range(gobject[lcs[q.lc].collection]) : HasBit(ob, BASE_VISIBLED)

(* ------------------------------------------------------------------ *)
(* C5  Restriction inheritance                                        *)
(* ------------------------------------------------------------------ *)

\* The non-master collections on the path of tree node p, p's own included.
PathCollections(p) ==
  {lcs[n].collection : n \in Range(p.anc) \cup {p.lc}} \ {master_collection}

AllVisitsPass(ob, bit) ==
  \A p \in VisitsOf(ob) : \E c \in PathCollections(p) : bit \in cflag[c]

\* C5: after a sync, an object all of whose non-excluded visits pass through
\* a view-restricted collection (its own or an ancestor at any depth) has
\* VISIBLED, VISIBLE_VIEWPORT and SELECTABLED clear; likewise render
\* restriction clears VISIBLE_RENDER and select restriction SELECTABLED.
C5_RestrictionInherited ==
  synced =>
    \A ob \in Objects :
      /\ AllVisitsPass(ob, COLLECTION_RESTRICT_VIEW) =>
           ~HasBit(ob, BASE_VISIBLED) /\ ~HasBit(ob, BASE_VISIBLE_VIEWPORT) /\ ~HasBit(ob, BASE_SELECTABLED)
      /\ AllVisitsPass(ob, COLLECTION_RESTRICT_RENDER) => ~HasBit(ob, BASE_VISIBLE_RENDER)
      /\ AllVisitsPass(ob, COLLECTION_RESTRICT_SELECT) => ~HasBit(ob, BASE_SELECTABLED)

\* An object two levels below a view-restricted collection, in a collection
\* that is not restricted itself: it has a Base, visible for render only.
C5_Witness ==
  /\ synced
  /\ \E ob \in Objects :
       /\ BaseOf(ob) # {}
       /\ \A p \in VisitsOf(ob) :
            /\ cflag[lcs[p.lc].collection] = {}
            /\ \E n \in Range(p.anc) : COLLECTION_RESTRICT_VIEW \in cflag[lcs[n].collection]
       /\ ~HasBit(ob, BASE_VISIBLED)
       /\ HasBit(ob, BASE_VISIBLE_RENDER)

(* ------------------------------------------------------------------ *)
(* C6  Cardinality postcondition                                      *)
(* ------------------------------------------------------------------ *)

\* C6: whatever state the scene and the mirror are in, the assertion at the
\* end of every call of layer_collection_sync holds in the sync run from it;
\* and after a sync every level of the mirror has as many layer collections
\* as the collection it mirrors has children (one root for the master).
C6_Cardinality ==
  /\ SyncAssertOk(View)
  /\ synced =>
       /\ Len(layer_collections) = 1
       /\ \A lc \in TreeNodes : Len(lcs[lc].layer_collections) = Len(children[lcs[lc].collection])

\* A synced mirror of three levels, or of a level with two children, after
\* the scene was edited.
C6_Witness ==
  /\ synced
  /\ ops > 0
  /\ \E p \in Paths : Len(p.anc) = 2
  /\ \E lc \in TreeNodes : Len(lcs[lc].layer_collections) = 2

(* ------------------------------------------------------------------ *)
(* C7  Hash-index coherence                                           *)
(* ------------------------------------------------------------------ *)

\* C7: after every sync the hash exists, its keys are exactly the objects of
\* the Bases of the Base list, and each key maps to the Base of the list that
\* references that object.
C7_HashCoherent ==
  synced =>
    /\ object_bases_hash.present
    /\ object_bases_hash.entries = {<<bases[b].object, b>> : b \in Range(object_bases)}
    /\ Range(object_bases) \subseteq DOMAIN bases

\* A synced view with Bases left, in which an object of an excluded layer
\* collection has no Base and no key.
C7_Witness ==
  /\ synced
  /\ object_bases # <<>>
  /\ \E lc \in TreeNodes :
       /\ Excluded(lc)
       /\ \E ob \in Range(gobject[lcs[lc].collection]) :
            BaseOf(ob) = {} /\ GhashLookup(object_bases_hash.entries, ob) = NULL

(* ------------------------------------------------------------------ *)
(* C8  Array-cache coherence                                          *)
(* ------------------------------------------------------------------ *)

\* C8: in every reachable state the array is absent or holds the Bases of the
\* Base list, position by position; right after a sync it is absent.
C8_ArrayCoherent ==
  /\ object_bases_array.present =>
       /\ object_bases_array.items = object_bases
       /\ Range(object_bases_array.items) \subseteq DOMAIN bases
  /\ synced => ~object_bases_array.present

\* An array of two or more Bases, built by an evaluation after the scene or
\* the view was changed and synced again.
C8_Witness ==
  /\ object_bases_array.present
  /\ Len(object_bases_array.items) >= 2
  /\ ops > 0
  /\ \E ob \in Objects : (\E c \in Collections : ob \in Range(gobject[c])) /\ BaseOf(ob) = {}

(* ------------------------------------------------------------------ *)
(* C9  Valid active layer collection                                  *)
(* ------------------------------------------------------------------ *)

\* C9 (as claimed): after every sync the active layer collection is a layer
\* collection of the view's tree, unless the tree is empty.
C9_ActiveValid ==
  synced => (layer_collections = <<>> \/ active_collection \in TreeNodes)

(* ------------------------------------------------------------------ *)
(* C10 Active fallback on exclusion                                   *)
(* ------------------------------------------------------------------ *)

Max(S) == CHOOSE x \in S : \A y \in S : y <= x

\* The nearest ancestor of tree node p that is not excluded, else the first root.
NearestIncludedAncestor(L, roots, p) ==
  LET cand == {i \in DOMAIN p.anc : LAYER_COLLECTION_EXCLUDE \notin L[p.anc[i]].flag}
  IN  IF cand = {} THEN First(roots) ELSE p.anc[Max(cand)]

\* C10 (as claimed): when the active layer collection is excluded and the sync
\* keeps it in the tree, the sync makes its nearest ancestor in the tree that
\* is not excluded the active one, or the first root if there is none.
C10_ActiveFallback ==
  (active_collection \in TreeNodes /\ Excluded(active_collection)) =>
    LET r == BKE_layer_collection_sync(View)
    IN  \A p \in TreePaths(r.lcs, r.layer_collections, <<>>) :
          p.lc = active_collection =>
            r.active_collection = NearestIncludedAncestor(r.lcs, r.layer_collections, p)

(* ------------------------------------------------------------------ *)
(* C11 Removal of unreachable Bases                                   *)
(* ------------------------------------------------------------------ *)

\* C11: a sync removes from the Base list, and from the keys of the hash,
\* every Base whose object is no longer directly contained in a reachable
\* collection with a layer collection that is not excluded; the active Base
\* reference is NULL afterwards if it was such a Base and unchanged otherwise.
C11_UnreachableBasesRemoved ==
  [][synced' =>
       LET gone == {b \in Range(object_bases) :
                      \E ob \in Objects : ob = bases[b].object /\ (VisitsOf(ob) = {})'}
       IN  /\ \A b \in gone :
                /\ b \notin Range(object_bases')
                /\ b \notin DOMAIN bases'
                /\ GhashLookup(object_bases_hash'.entries, bases[b].object) = NULL
           /\ basact' = IF basact \in gone THEN NULL ELSE basact]_vars

\* The active Base is the Base of an object that the next sync finds
\* unreachable: the sync removes it, keeps other Bases and clears the
\* active Base reference.
C11_Witness ==
  /\ basact # NULL
  /\ basact \in Range(object_bases)
  /\ LET r == BKE_layer_collection_sync(View)
     IN  /\ r.basact = NULL
         /\ basact \notin Range(r.object_bases)
         /\ r.object_bases # <<>>
         /\ GhashLookup(r.object_bases_hash.entries, bases[basact].object) = NULL

(* ------------------------------------------------------------------ *)
(* C12 Multiply-linked collection                                     *)
(* ------------------------------------------------------------------ *)

\* The layer collections of the tree that mirror collection c.
NodesOf(c) == {lc \in TreeNodes : lcs[lc].collection = c}

\* The layer collections in the child list of lc that mirror collection c.
ChildNodesOf(lc, c) ==
  {i \in DOMAIN lcs[lc].layer_collections : lcs[lcs[lc].layer_collections[i]].collection = c}

\* C12: after a sync every layer collection has, for every child of its
\* collection, exactly one layer collection in its child list, so a collection
\* linked under two reachable parents has two distinct layer collections; an
\* object of such a collection has at most one Base, and exactly one as long
\* as one of these layer collections is not excluded.  A sync never changes
\* the flag of a layer collection it keeps, so excluding one of them and
\* syncing again leaves the flag of the other as it was.
C12_MultiplyLinked ==
  /\ [](synced =>
          /\ \A lc \in TreeNodes : \A c \in Range(children[lcs[lc].collection]) :
               Cardinality(ChildNodesOf(lc, c)) = 1
          /\ \A c \in Collections :
               Cardinality(NodesOf(c)) >= 2 =>
                 \A ob \in Range(gobject[c]) :
                   /\ Cardinality(BaseOf(ob)) <= 1
                   /\ (\E lc \in NodesOf(c) : ~Excluded(lc)) => Cardinality(BaseOf(ob)) = 1)
  /\ [][synced' => \A lc \in (DOMAIN lcs) \cap (DOMAIN lcs') : lcs'[lc].flag = lcs[lc].flag]_vars

\* A collection mirrored twice, one layer collection excluded and the other
\* not, whose object has its one Base.
C12_Witness ==
  /\ synced
  /\ \E c \in Collections :
       /\ \E a, b \in NodesOf(c) : a # b /\ Excluded(a) /\ ~Excluded(b)
       /\ \E ob \in Range(gobject[c]) :
            /\ Cardinality(BaseOf(ob)) = 1
            /\ \A p \in VisitsOf(ob) : lcs[p.lc].collection = c

(* ------------------------------------------------------------------ *)
(* C13 Exactly-once lazy index construction                           *)
(* ------------------------------------------------------------------ *)

\* C13 (as claimed): with several threads in BKE_view_layer_base_find on a
\* view without hash, a thread allocates a hash only while the view has none:
\* no second hash is allocated and no published hash is replaced.
C13_HashBuiltOnce ==
  [][\A t \in Threads :
       (threads[t].pc = "new" /\ threads'[t].pc = "insert") => ~object_bases_hash.present]_vars

(* ------------------------------------------------------------------ *)
(* C14 Lookup result                                                  *)
(* ------------------------------------------------------------------ *)

\* What the claim expects of a lookup of ob in view v.
BaseOfIn(v, ob) ==
  LET found == {b \in Range(v.object_bases) : v.bases[b].object = ob}
  IN  IF found = {} THEN NULL ELSE CHOOSE b \in found : TRUE

\* C14: in every reachable state BKE_view_layer_base_find returns, for every
\* object, the Base of the Base list that references it, or NULL when there
\* is none: on the view as it is (with its hash, if it has one) and on a view
\* with the same Bases and no hash yet (its copy).
C14_LookupResult ==
  \A ob \in Objects :
    /\ BaseFindResult(View, ob) = BaseOfIn(View, ob)
    /\ BaseFindResult(ViewLayerCopy(View), ob) = BaseOfIn(View, ob)

\* A view with a hash and two or more Bases, synced after an object lost its
\* Base: the lookup finds a Base for one object and none for the other.
C14_Witness ==
  /\ object_bases_hash.present
  /\ Len(object_bases) >= 2
  /\ ops > 0
  /\ \E ob \in Objects : BaseFindResult(View, ob) # NULL
  /\ \E ob \in Objects :
       /\ \E c \in Collections : ob \in Range(gobject[c])
       /\ BaseFindResult(View, ob) = NULL

(* ------------------------------------------------------------------ *)
(* C15 Not-found operations have no side effects                      *)
(* ------------------------------------------------------------------ *)

\* The properties in the two lists of a set.
PropsOf(set) ==
  Range(osets[set].scene_properties) \cup Range(osets[set].collection_properties)

\* C15: in every reachable state, removing a set the view does not own,
\* unlinking a collection that is not in a set, and removing a property that
\* is in neither list of a set each return false and change nothing.
C15_NotFoundNoEffect ==
  /\ \A set \in SetIds \ Range(override_sets) :
       override_set_remove(OverrideView, set) = [ret |-> FALSE, o |-> OverrideView]
  /\ \A set \in DOMAIN osets :
       /\ \A c \in Collections \ Range(osets[set].affected_collections) :
            override_set_collection_unlink(OverrideView, set, c) =
              [ret |-> FALSE, o |-> OverrideView]
       /\ \A dyn_prop \in PropIds \ PropsOf(set) :
            override_property_remove(OverrideView, set, dyn_prop) =
              [ret |-> FALSE, o |-> OverrideView]

\* Two sets, the active one not the first; one has a property, which is not
\* in the other, and affected collections with an active index, among which
\* one collection is missing.
C15_Witness ==
  /\ Len(override_sets) = 2
  /\ active_override_set = 1
  /\ \E a, b \in DOMAIN osets :
       /\ a # b
       /\ PropsOf(a) # {}
       /\ PropsOf(b) = {}
       /\ Len(osets[b].affected_collections) = 1

(* ------------------------------------------------------------------ *)
(* C16 Active override-set index stays valid                          *)
(* ------------------------------------------------------------------ *)

\* C16: from a view layer without override sets and active index 0, after
\* any sequence of set additions and removals (and of choices of an active
\* set among those there are) the active index is not negative and at most
\* the number of sets minus one, 0 when there is no set.
C16_ActiveSetIndexValid ==
  /\ active_override_set >= 0
  /\ active_override_set <= MAX2(0, Len(override_sets) - 1)

\* Two sets, the last one active: removing it makes the first one active.
C16_Witness ==
  /\ Len(override_sets) = 2
  /\ active_override_set = 1
  /\ LET r == override_set_remove(OverrideView, override_sets[2])
     IN  r.ret /\ r.o.active_override_set = 0 /\ Len(r.o.override_sets) = 1

(* ------------------------------------------------------------------ *)
(* C17 BKE_view_layer_override_set_add                                *)
(* ------------------------------------------------------------------ *)

\* C17: a step that adds a set appends it, a set that was not there, at the
\* tail of the list, the sets before it unchanged and in their order; the new
\* set is enabled, its two property lists and its affected collections are
\* empty, and the active index is the position of the new set.
C17_SetAdd ==
  [][Len(override_sets') > Len(override_sets) =>
       LET set == override_sets'[Len(override_sets')]
       IN  /\ override_sets' = Append(override_sets, set)
           /\ set \notin Range(override_sets)
           /\ \A old \in Range(override_sets) : osets'[old] = osets[old]
           /\ osets'[set].flag = {DYN_OVERRIDE_SET_USE}
           /\ osets'[set].scene_properties = <<>>
           /\ osets'[set].collection_properties = <<>>
           /\ osets'[set].affected_collections = <<>>
           /\ active_override_set' = Len(override_sets') - 1
           /\ BLI_findindex(override_sets', set) = active_override_set']_vars

\* A second set was added behind a first one that has affected collections
\* and was the active set.
C17_Witness ==
  /\ Len(override_sets) = 2
  /\ active_override_set = 1
  /\ osets[override_sets[1]].affected_collections # <<>>
  /\ osets[override_sets[2]].affected_collections = <<>>
  /\ osets[override_sets[2]].flag = {DYN_OVERRIDE_SET_USE}
  /\ override_set_add(OverrideView).o.active_override_set = 2

(* ------------------------------------------------------------------ *)
(* C18 No duplicate affected collections                              *)
(* ------------------------------------------------------------------ *)

NoDuplicates(s) == \A i, j \in DOMAIN s : s[i] = s[j] => i = j

\* C18: in every reachable state no collection is twice in the affected
\* collections of a set; linking a collection that is there returns false and
\* changes nothing, linking another returns true and appends it at the tail.
C18_NoDuplicateAffected ==
  \A set \in DOMAIN osets :
    /\ NoDuplicates(osets[set].affected_collections)
    /\ \A c \in Collections :
         LET r == override_set_collection_link(OverrideView, set, c)
         IN  IF c \in Range(osets[set].affected_collections)
               THEN r = [ret |-> FALSE, o |-> OverrideView]
               ELSE /\ r.ret = TRUE
                    /\ r.o = [OverrideView EXCEPT
                                !.osets[set].affected_collections = Append(@, c)]

\* A set with all three collections linked, after links and unlinks enough
\* to have them in another order than they were linked first.
C18_Witness ==
  \E set \in DOMAIN osets :
    /\ Len(osets[set].affected_collections) = Cardinality(Collections)
    /\ osets[set].affected_collections[1] = "B"
    /\ osets[set].affected_collections[3] = "M"

(* ------------------------------------------------------------------ *)
(* C19 Active affected-collection index on unlink                     *)
(* ------------------------------------------------------------------ *)

\* C19: in every reachable state the active affected-collection index of a
\* set is not negative and at most max(0, count - 1); unlinking the entry at
\* position k leaves an active index a as a - 1 if a > k, as a if a < k, and
\* if a = k as a unless k was the last position, then as max(0, k - 1).
C19_ActiveAffectedIndex ==
  \A set \in DOMAIN osets :
    LET lb == osets[set].affected_collections
        a == osets[set].active_affected_collection
    IN  /\ a >= 0
        /\ a <= MAX2(0, Len(lb) - 1)
        /\ \A i \in DOMAIN lb :
             LET k == i - 1
                 r == override_set_collection_unlink(OverrideView, set, lb[i])
                 a2 == r.o.osets[set].active_affected_collection
             IN  /\ r.ret = TRUE
                 /\ r.o.osets[set].affected_collections = Remlink(lb, lb[i])
                 /\ a > k => a2 = a - 1
                 /\ a < k => a2 = a
                 /\ (a = k /\ k < Len(lb) - 1) => a2 = a
                 /\ (a = k /\ k = Len(lb) - 1) => a2 = MAX2(0, k - 1)

\* Three affected collections, the last one active: unlinking the first
\* shifts the index, unlinking the last one clamps it.
C19_Witness ==
  \E set \in DOMAIN osets :
    /\ Len(osets[set].affected_collections) = 3
    /\ osets[set].active_affected_collection = 2
    /\ override_set_collection_unlink(OverrideView, set, osets[set].affected_collections[1])
         .o.osets[set].active_affected_collection = 1
    /\ override_set_collection_unlink(OverrideView, set, osets[set].affected_collections[3])
         .o.osets[set].active_affected_collection = 1

(* ------------------------------------------------------------------ *)
(* C20 BKE_view_layer_override_property_add                           *)
(* ------------------------------------------------------------------ *)

MatchingList(set, id) ==
  IF IdTypeOf(id) = "ID_SCE" THEN osets[set].scene_properties
  ELSE osets[set].collection_properties

\* The properties a call on id is to apply.
ToApply(id) ==
  {p \in DOMAIN props :
     /\ DYN_OVERRIDE_PROP_USE \in props[p].flag
     /\ \E set \in Range(override_sets) :
          /\ DYN_OVERRIDE_SET_USE \in osets[set].flag
          /\ p \in Range(MatchingList(set, id))}

\* The set whose list holds property p.
SetOfProp(p) == CHOOSE set \in DOMAIN osets : p \in PropsOf(set)

\* p is before q in the order of the sets, then of the properties in a set.
AppliedBefore(p, q, id) ==
  LET sp == SetOfProp(p)
      sq == SetOfProp(q)
  IN  \/ BLI_findindex(override_sets, sp) < BLI_findindex(override_sets, sq)
      \/ /\ sp = sq
         /\ BLI_findindex(MatchingList(sp, id), p) < BLI_findindex(MatchingList(sp, id), q)

C22_ApplyRespectsAffected ==
  (apply.called /\ IdTypeOf(apply.id) = "ID_OB") =>
    \A i \in DOMAIN apply.log :
      \E c \in Range(osets[SetOfProp(apply.log[i])].affected_collections) :
        apply.id \in Range(gobject[c])

(* ------------------------------------------------------------------ *)
(* C23 Flag-filtered iteration                                        *)
(* ------------------------------------------------------------------ *)

\* The flag bit each flag-filtered iterator requires.
FlagOfIterator ==
  [selected_objects |-> BASE_SELECTED, visible_objects |-> BASE_VISIBLED,
   selected_bases |-> BASE_SELECTED, visible_bases |-> BASE_VISIBLED]

\* The objects of a sequence of Bases.
ObjectsOfBases(s) == [i \in DOMAIN s |-> BaseAt(s[i]).object]

\* The Bases of the view layer that have the bit, in list order.
BasesWithFlag(view_layer, flag) ==
  SelectSeq(BasesOf(view_layer), LAMBDA b : flag \in BaseAt(b).flag)

\* What a whole traversal with the iterator begun is to yield.
FlagExpected ==
  LET m == BasesWithFlag(iter.data_in, FlagOfIterator[iter.fn])
  IN  IF iter.fn \in {"selected_objects", "visible_objects"} THEN ObjectsOfBases(m) ELSE m

\* The caller received the first elements of `expected`, and the cursor is on
\* the last of them; or the cursor is invalid and the caller received all.
YieldedSoFar(expected) ==
  IF iter.valid
    THEN /\ iter.yielded # <<>>
         /\ Len(iter.yielded) <= Len(expected)
         /\ iter.yielded = SubSeq(expected, 1, Len(iter.yielded))
         /\ iter.current = iter.yielded[Len(iter.yielded)]
    ELSE iter.yielded = expected

\* C23: at every point of a traversal with one of the four flag-filtered
\* iterators, the elements yielded are the first Bases of the list that have
\* the bit (or their objects), in list order, each once, one per call; the
\* cursor is invalid exactly when all of them were yielded, so from begin on
\* when the list is empty or has no match.
C23_FlagFiltered ==
  iter.fn \in DOMAIN FlagOfIterator => YieldedSoFar(FlagExpected)

\* A traversal ended that had to search at begin, skipped a Base in the
\* middle and yielded two Bases.
C23_Witness ==
  /\ iter.fn = "visible_bases"
  /\ ~iter.valid
  /\ Len(iter.yielded) = 2
  /\ Len(ViewAt(iter.data_in).object_bases) = 3
  /\ BASE_VISIBLED \notin BaseAt(<<1, 1, 1>>).flag
  /\ BASE_SELECTED \in BaseAt(<<1, 1, 1>>).flag
  /\ BASE_SELECTED \in BaseAt(<<1, 1, 2>>).flag

(* ------------------------------------------------------------------ *)
(* C24 Selected-editable iteration                                    *)
(* ------------------------------------------------------------------ *)

\* The objects of the selected Bases whose object is not library data.
SelectedEditable(view_layer) ==
  ObjectsOfBases(SelectSeq(BasesOf(view_layer),
                           LAMBDA b : /\ BASE_SELECTED \in BaseAt(b).flag
                                      /\ ~BKE_object_is_libdata(BaseAt(b).object)))

\* C24: at every point of a traversal with the selected-editable iterator,
\* the objects yielded are the first objects, in Base-list order, of the
\* Bases that are SELECTED and whose object is not library data, each once;
\* the cursor is invalid exactly when all of them were yielded.
C24_SelectedEditable ==
  iter.fn = "selected_editable_objects" => YieldedSoFar(SelectedEditable(iter.data_in))

\* A traversal ended whose first selected object is library data, as is one
\* after the object it yielded.
C24_Witness ==
  /\ iter.fn = "selected_editable_objects"
  /\ ~iter.valid
  /\ Len(iter.yielded) = 1
  /\ LET list == ViewAt(iter.data_in).object_bases
     IN  /\ Len(list) = 3
         /\ \A i \in 1..3 : BASE_SELECTED \in list[i].flag
         /\ BKE_object_is_libdata(list[1].object)
         /\ iter.yielded = <<list[2].object>>
         /\ BKE_object_is_libdata(list[3].object)

(* ------------------------------------------------------------------ *)
(* C25 Renderable iteration never duplicates                          *)
(* ------------------------------------------------------------------ *)

\* C25: every step of a traversal with the renderable iterator that hands an
\* object to the caller (a step not marked skip) hands an object that was not
\* handed out before in the traversal, from a Base of that object that has
\* BASE_VISIBLED.
C25_RenderableNoDuplicates ==
  [][(iter'.fn = "renderable_objects" /\ Len(iter'.yielded) > Len(iter.yielded)) =>
       \E ob \in Objects, base \in {iter'.data.iter_base} :
         /\ ob = iter'.current
         /\ iter'.yielded = Append(iter.yielded, ob)
         /\ ob \notin Range(iter.yielded)
         /\ base # BaseTemp
         /\ BaseAt(base).object = ob
         /\ BASE_VISIBLED \in BaseAt(base).flag]_vars

\* A traversal ended that yielded an object once which has visible Bases in
\* two view layers of the scene and in the background scene.
C25_Witness ==
  /\ iter.fn = "renderable_objects"
  /\ ~iter.valid
  /\ iter.yielded = <<"o1">>
  /\ Len(iter_scenes) = 2
  /\ Len(iter_scenes[1].view_layers) = 2
  /\ VIEW_LAYER_RENDER \in ViewAt(<<1, 2>>).flag
  /\ \A vl \in {<<1, 1>>, <<1, 2>>, <<2, 1>>} :
       ViewAt(vl).object_bases = <<[object |-> "o1", flag |-> {BASE_VISIBLED}]>>

(* ------------------------------------------------------------------ *)
(* C26 Renderable iteration is complete                               *)
(* ------------------------------------------------------------------ *)

\* The view layers a traversal from `scene` goes through: the first view
\* layer of the scene, its other view layers flagged for render, and the
\* default render view layer of each background scene.
RECURSIVE BackgroundViewLayers(_)
BackgroundViewLayers(scene) ==
  IF scene = NULL THEN {}
  ELSE {BKE_view_layer_default_render(scene)} \cup BackgroundViewLayers(SceneSet(scene))

TraversedViewLayers(scene) ==
  {<<scene, 1>>}
    \cup {vl \in Range(ViewLayersOf(scene)) : VIEW_LAYER_RENDER \in ViewAt(vl).flag}
    \cup BackgroundViewLayers(SceneSet(scene))

\* The objects that have a Base with BASE_VISIBLED in a traversed view layer.
RenderableObjects(scene) ==
  {BaseAt(b).object :
     b \in {x \in UNION {Range(BasesOf(vl)) : vl \in TraversedViewLayers(scene)} :
              BASE_VISIBLED \in BaseAt(x).flag}}

\* C26: when a traversal with the renderable iterator has ended, every
\* object with a BASE_VISIBLED Base in a traversed view layer was yielded, and
\* yielded once.
C26_RenderableComplete ==
  (iter.fn = "renderable_objects" /\ ~iter.valid) =>
    /\ Range(iter.yielded) = RenderableObjects(iter.data_in)
    /\ Len(iter.yielded) = Cardinality(RenderableObjects(iter.data_in))

(* ------------------------------------------------------------------ *)
(* C27 Same-mode-sibling iteration                                    *)
(* ------------------------------------------------------------------ *)

\* The Bases of the view layer that are SELECTED, of the type of the active
\* object, in the mode asked for, and not the active Base, in list order.
InModeSiblings(data) ==
  SelectSeq(BasesOf(data.view_layer), LAMBDA b : InModeMatch(data, b))

\* C27: in a traversal with the same-mode iterator begun on a non-null
\* active Base, the active Base is never yielded, and when the traversal has
\* ended the Bases yielded are exactly the SELECTED Bases other than the
\* active one whose object has the type of the active object and a mode
\* inside the mask.
C27_InModeSiblings ==
  (iter.fn = "bases_in_mode" /\ iter.data_in.base_active # NoBase) =>
    /\ iter.data_in.base_active \notin Range(iter.yielded)
    /\ ~iter.valid => iter.yielded = InModeSiblings(iter.data_in)

(* ------------------------------------------------------------------ *)
(* C28 Source order is mirrored                                       *)
(* ------------------------------------------------------------------ *)

\* The collections behind a list of layer collections, in list order.
CollectionsOfList(list) == [i \in DOMAIN list |-> lcs[list[i]].collection]

\* C28: after a sync the root list mirrors the master collection alone, and
\* at every level of the tree the i-th layer collection of a child list is
\* backed by the i-th child of the collection the level mirrors, whatever
\* was added to, removed from or moved in the child lists before the sync.
C28_SourceOrderMirrored ==
  synced =>
    /\ CollectionsOfList(layer_collections) = <<master_collection>>
    /\ \A lc \in TreeNodes :
         CollectionsOfList(lcs[lc].layer_collections) = children[lcs[lc].collection]

\* A synced level of two children after two scene edits, the layer
\* collection allocated later standing first: the child list was reordered
\* or got an insertion since the layer collections were made.
C28_Witness ==
  /\ synced
  /\ ops = 2
  /\ \E lc \in TreeNodes :
       LET kids == lcs[lc].layer_collections
       IN  /\ Len(kids) = 2
           /\ kids[1] > kids[2]
           /\ CollectionsOfList(kids) = children[lcs[lc].collection]

(* ------------------------------------------------------------------ *)
(* C29 Stable Base identity and selection                             *)
(* ------------------------------------------------------------------ *)

\* C29: for every Base of the Base list whose object is, at a sync, still
\* directly contained in a collection with a layer collection of the tree
\* that is not excluded, the sync keeps that Base: it is the one Base of the
\* object in the new list, its SELECTED bit is what it was, and it is still
\* the active Base if it was the active Base.
C29_StableBase ==
  [][synced' =>
       \A b \in Range(object_bases) : \A ob \in Objects :
         (ob = bases[b].object /\ (VisitsOf(ob) # {})') =>
           /\ b \in Range(object_bases')
           /\ b \in DOMAIN bases'
           /\ bases'[b].object = ob
           /\ {x \in Range(object_bases') : bases'[x].object = ob} = {b}
           /\ (BASE_SELECTED \in bases'[b].flag) = (BASE_SELECTED \in bases[b].flag)
           /\ (basact = b) => (basact' = b)]_vars

\* After a selection and one more operation a sync has run over two Bases:
\* the selected, active Base is still there, and not as the first of the list.
C29_Witness ==
  /\ synced
  /\ ops = 2
  /\ Len(object_bases) >= 2
  /\ basact \in Range(object_bases)
  /\ basact # object_bases[1]
  /\ BASE_SELECTED \in bases[basact].flag

(* ------------------------------------------------------------------ *)
(* C30 Layer-collection local state across sync                       *)
(* ------------------------------------------------------------------ *)

\* Tree node p mirrors a child link that is still there, under a parent that
\* does so too, up to a root that mirrors the master collection: the first
\* loop of layer_collection_sync (layer.c 633-646) frees none of them.
StillLinked(p) ==
  LET chain == Append(p.anc, p.lc)
  IN  /\ lcs[chain[1]].collection = master_collection
      /\ \A i \in 2..Len(chain) :
           lcs[chain[i]].collection \in Range(children[lcs[chain[i-1]].collection])

\* The sync the state is about to get, and the tree it leaves.
SyncResult == BKE_layer_collection_sync(View)

SyncResultPaths == TreePaths(SyncResult.lcs, SyncResult.layer_collections, <<>>)

\* C30: a sync keeps every layer collection whose collection is still in the
\* child list of the collection of its parent layer collection: it is the same
\* layer collection under the same ancestors, with the flag and the collection
\* it had, and so are those below it that are still linked, whatever was
\* added, removed or moved among its siblings and whatever the flag of its
\* parent is by now.  A layer collection the sync creates has the flag its
\* parent layer collection has at that sync, and a clear flag if it is a root.
C30_LayerCollectionLocalState ==
  [][synced' =>
       /\ \A p \in Paths :
            StillLinked(p) =>
              /\ p \in Paths'
              /\ lcs'[p.lc].collection = lcs[p.lc].collection
              /\ lcs'[p.lc].flag = lcs[p.lc].flag
       /\ \A q \in Paths' :
            q.lc \notin DOMAIN lcs =>
              lcs'[q.lc].flag = IF q.anc = <<>> THEN {}
                                ELSE lcs'[q.anc[Len(q.anc)]].flag]_vars

\* A tree whose root was excluded after its child was made, and whose scene
\* got a new child link since: the sync to come keeps the child as it is,
\* not excluded under its excluded parent, gives it a sibling or a child it
\* creates excluded, and an earlier sync created the root with a clear flag.
C30_Witness ==
  /\ ~synced
  /\ \E p \in Paths :
       /\ p.anc # <<>>
       /\ StillLinked(p)
       /\ Excluded(p.anc[Len(p.anc)])
       /\ ~Excluded(p.lc)
       /\ p \in SyncResultPaths
       /\ SyncResult.lcs[p.lc].flag = lcs[p.lc].flag
  /\ \E q \in SyncResultPaths :
       /\ q.lc \notin DOMAIN lcs
       /\ q.anc # <<>>
       /\ LAYER_COLLECTION_EXCLUDE \in SyncResult.lcs[q.lc].flag

(* ------------------------------------------------------------------ *)
(* C31 Restriction bits of the master collection are ignored          *)
(* ------------------------------------------------------------------ *)

\* The restriction bits of the collections on the path of tree node p,
\* the master collection left out.
NonRootRestrict(p) ==
  UNION {cflag[c] \cap RestrictBits : c \in PathCollections(p)}

\* C31: after a sync, whatever restriction bits the master collection has,
\* the objects of the master collection have all four derived bits unless
\* its layer collection is excluded; every visit of an object grants the
\* bits that the restriction bits of the other collections on its path,
\* all unioned, leave; and no visibility bit is set without such a visit.
C31_RootRestrictionIgnored ==
  synced =>
    /\ \A ob \in Range(gobject[master_collection]) :
         (\E p \in VisitsOf(ob) : p.anc = <<>>) =>
           /\ BaseOf(ob) # {}
           /\ \A b \in BaseOf(ob) : SyncedBits \subseteq bases[b].flag
    /\ \A ob \in Objects : \A p \in VisitsOf(ob) :
         /\ BaseOf(ob) # {}
         /\ \A b \in BaseOf(ob) : VisitBits(NonRootRestrict(p)) \subseteq bases[b].flag
    /\ \A ob \in Objects :
         /\ HasBit(ob, BASE_VISIBLED) =>
              \E p \in VisitsOf(ob) : COLLECTION_RESTRICT_VIEW \notin NonRootRestrict(p)
         /\ HasBit(ob, BASE_VISIBLE_RENDER) =>
              \E p \in VisitsOf(ob) : COLLECTION_RESTRICT_RENDER \notin NonRootRestrict(p)

\* The master collection is view-restricted at a sync: one of its own
\* objects and an object held only by other collections are visible.
C31_Witness ==
  /\ synced
  /\ COLLECTION_RESTRICT_VIEW \in cflag[master_collection]
  /\ \E ob \in Range(gobject[master_collection]) : HasBit(ob, BASE_VISIBLED)
  /\ \E ob \in Objects :
       /\ ob \notin Range(gobject[master_collection])
       /\ HasBit(ob, BASE_VISIBLED)
       /\ HasBit(ob, BASE_SELECTABLED)

(* ------------------------------------------------------------------ *)
(* C32 Pruning                                                        *)
(* ------------------------------------------------------------------ *)

\* C32 (as claimed): a sync removes every layer collection of the tree whose
\* collection is no longer in the child list its level mirrors, or is NULL,
\* and with it all layer collections below it; it keeps every other layer
\* collection where it is; and if the active layer collection was one of the
\* removed ones, below the root, the first root is active after the sync.
C32_Pruning ==
  [][synced' =>
       /\ \A p \in Paths :
            /\ ~StillLinked(p) => (p.lc \notin TreeNodes' /\ p.lc \notin DOMAIN lcs')
            /\ StillLinked(p) => p \in Paths'
       /\ \A p \in Paths :
            (p.lc = active_collection /\ p.anc # <<>> /\ ~StillLinked(p)) =>
              active_collection' = First(layer_collections')]_vars

(* ------------------------------------------------------------------ *)
(* C33 Activation refuses excluded layer collections                  *)
(* ------------------------------------------------------------------ *)

\* C33: in every state reached by activations, exclusions, edits of the
\* child links and syncs, BKE_layer_collection_activate on an excluded layer
\* collection returns false and leaves the active one, and on any other it
\* returns true and makes it the active one; and right after a sync whose
\* root is not excluded the active layer collection is a layer collection
\* of the tree that is not excluded.
C33_ActivationRefusesExcluded ==
  /\ \A lc \in DOMAIN lcs :
       LET r == layer_collection_activate(View, lc)
       IN  IF Excluded(lc)
             THEN ~r.ret /\ r.active_collection = active_collection
             ELSE r.ret /\ r.active_collection = lc
  /\ (synced /\ layer_collections # <<>> /\ ~Excluded(First(layer_collections))) =>
       (active_collection \in TreeNodes /\ ~Excluded(active_collection))

\* Right after a sync that found the active layer collection excluded: the
\* active one is now another, not excluded, and an activation of the excluded
\* one is refused.
C33_Witness ==
  /\ synced
  /\ ops = 2
  /\ ~Excluded(First(layer_collections))
  /\ active_collection \in TreeNodes
  /\ \E lc \in TreeNodes :
       /\ Excluded(lc)
       /\ lc # active_collection
       /\ ~layer_collection_activate(View, lc).ret

(* ------------------------------------------------------------------ *)
(* C34 Evaluation postcondition                                       *)
(* ------------------------------------------------------------------ *)

\* A step of BKE_layer_eval_view_layer: the only operation that leaves the
\* view unsynced without counting as an edit and without building the hash.
EvalStep ==
  /\ ops' = ops
  /\ synced' = FALSE
  /\ object_bases_hash' = object_bases_hash

\* C34: after BKE_layer_eval_view_layer there is a mode bit, VISIBLE_VIEWPORT
\* or VISIBLE_RENDER, such that every Base of the list has VISIBLED exactly
\* when it has that bit; no Base of the list has SELECTED without
\* SELECTABLED; and the array holds the Bases of the list, in list order,
\* with the length of the list.
C34_EvalPostcondition ==
  [][EvalStep =>
       /\ \E base_flag \in {BASE_VISIBLE_VIEWPORT, BASE_VISIBLE_RENDER} :
            \A b \in Range(object_bases') :
              (BASE_VISIBLED \in bases'[b].flag) <=> (base_flag \in bases'[b].flag)
       /\ \A b \in Range(object_bases') :
            BASE_SELECTED \in bases'[b].flag => BASE_SELECTABLED \in bases'[b].flag
       /\ object_bases_array'.present
       /\ Len(object_bases_array'.items) = Len(object_bases')
       /\ \A i \in DOMAIN object_bases' : object_bases_array'.items[i] = object_bases'[i]]_vars

\* After an evaluation for rendering: a Base shown in the viewport but not in
\* renders has lost VISIBLED, another Base has it, and the array has both.
C34_Witness ==
  /\ ~synced
  /\ object_bases_array.present
  /\ Len(object_bases_array.items) >= 2
  /\ object_bases_array.items = object_bases
  /\ \E b \in Range(object_bases) :
       /\ BASE_VISIBLE_VIEWPORT \in bases[b].flag
       /\ BASE_VISIBLE_RENDER \notin bases[b].flag
       /\ BASE_VISIBLED \notin bases[b].flag
  /\ \E b \in Range(object_bases) : BASE_VISIBLED \in bases[b].flag

(* ------------------------------------------------------------------ *)
(* C35 Index round trip over the tree                                 *)
(* ------------------------------------------------------------------ *)

\* The layer collections under a list in depth-first pre-order.
RECURSIVE PreOrder(_, _)
PreOrder(L, list) ==
  IF list = <<>> THEN <<>>
  ELSE <<Head(list)>> \o PreOrder(L, L[Head(list)].layer_collections) \o PreOrder(L, Tail(list))

\* C35: in every reachable state of the view, for every layer collection lc
\* of the tree from_index(findindex(lc)) is lc and findindex(lc) is the
\* position of lc in the depth-first pre-order, counted from 0; the indices
\* are 0 .. count-1, no two layer collections share one; findindex gives -1
\* for a layer collection that is not in the tree and from_index gives NULL
\* for every index below 0 or from count on.
C35_IndexRoundTrip ==
  LET order == PreOrder(lcs, layer_collections)
      count == BKE_layer_collection_count(View)
  IN  /\ count = Len(order)
      /\ count = Cardinality(TreeNodes)
      /\ \A k \in DOMAIN order :
           /\ BKE_layer_collection_findindex(View, order[k]) = k - 1
           /\ BKE_layer_collection_from_index(View, k - 1) = order[k]
      /\ \A lc \in TreeNodes :
           /\ BKE_layer_collection_findindex(View, lc) \in 0..(count - 1)
           /\ BKE_layer_collection_from_index(View, BKE_layer_collection_findindex(View, lc)) = lc
      /\ \A a, b \in TreeNodes :
           BKE_layer_collection_findindex(View, a) = BKE_layer_collection_findindex(View, b) => a = b
      /\ \A lc \in (1..(count + 2)) \ TreeNodes :
           BKE_layer_collection_findindex(View, lc) = 0 - 1
      /\ \A index \in {0 - 2, 0 - 1, count, count + 1} :
           BKE_layer_collection_from_index(View, index) = NULL

\* A tree of four layer collections in which the last one comes after a
\* sibling that has a child: its index 3 counts the nested one.
C35_Witness ==
  /\ BKE_layer_collection_count(View) = 4
  /\ \E p \in Paths :
       /\ Len(p.anc) = 1
       /\ BKE_layer_collection_findindex(View, p.lc) = 3
       /\ BKE_layer_collection_from_index(View, 3) = p.lc

(* ------------------------------------------------------------------ *)
(* C36 Remap invalidation                                             *)
(* ------------------------------------------------------------------ *)

\* C36 (as claimed): after BKE_main_collection_sync_remap, also when the
\* remap made existing Bases reference another object, the hash exists and
\* has exactly the objects of the Base list as keys, each key is looked up to
\* the Base of the list for that object, the list has at most one Base per
\* object, and the array is absent.
C36_RemapInvalidation ==
  synced =>
    /\ object_bases_hash.present
    /\ {e[1] : e \in object_bases_hash.entries} = {bases[b].object : b \in Range(object_bases)}
    /\ \A b \in Range(object_bases) :
         GhashLookup(object_bases_hash.entries, bases[b].object) = b
    /\ \A a, b \in Range(object_bases) : bases[a].object = bases[b].object => a = b
    /\ ~object_bases_array.present

(* ------------------------------------------------------------------ *)
(* C37 Sync terminates                                                *)
(* ------------------------------------------------------------------ *)

\* C37: on every scene whose collections form a DAG and from every prior
\* state of the view, a call of BKE_layer_collection_sync that has begun,
\* the walk of the active layer collection up through parent collections
\* included, comes to its end.
C37_SyncTerminates ==
  (walk.pc # "idle") ~> (walk.pc = "idle" /\ synced)

\* The fallback walk has moved up from the excluded active layer collection
\* to an excluded parent, on a scene in which a collection has two parents.
C37_Witness ==
  /\ walk.pc = "fallback"
  /\ walk.lc # active_collection
  /\ \E c \in Collections : Len(parents[c]) >= 2
  /\ Cardinality(DOMAIN lcs) = 4

(* ------------------------------------------------------------------ *)
(* C38 Collection select                                              *)
(* ------------------------------------------------------------------ *)

\* Every layer collection of the view has its collection: the call reads
\* lc->collection->flag first.
AllHaveCollection == \A n \in DOMAIN lcs : lcs[n].collection # NoCollection

\* The layer collections of the subtree of lc that no select-restricted
\* collection, at them or between lc and them, cuts off.
RECURSIVE SelectReached(_, _)
SelectReached(L, lc) ==
  IF COLLECTION_RESTRICT_SELECT \in cflag[L[lc].collection] THEN {}
  ELSE {lc} \cup UNION {SelectReached(L, c) : c \in Range(L[lc].layer_collections)}

\* The objects directly in the collection of a layer collection that is
\* reached and not excluded.
SelectObjectsOf(L, lc) ==
  UNION {Range(gobject[L[n].collection]) :
           n \in {m \in SelectReached(L, lc) : LAYER_COLLECTION_EXCLUDE \notin L[m].flag}}

C39_LookupSeesCompleteIndex ==
  \A t \in Threads :
    (/\ threads[t].pc = "done"
     /\ \E b \in Range(object_bases) : bases[b].object = threads[t].ob)
      => threads[t].ret # NULL

(* ------------------------------------------------------------------ *)
(* C40 Active override set follows its set                            *)
(* ------------------------------------------------------------------ *)

\* The set the active index of o designates, NULL when the list is empty.
ActiveSetOf(o) ==
  IF o.override_sets = <<>> THEN NULL ELSE o.override_sets[o.active_override_set + 1]

\* C40: in every reachable state, for every set of the list, after
\* BKE_view_layer_override_set_remove of a set that is not the active one the
\* active index designates the set it designated before; after the removal
\* of the active set it designates the set that followed it, or the new last
\* set when the removed set was the last one.
C40_ActiveFollowsItsSet ==
  \A set \in Range(override_sets) :
    LET o == OverrideView
        r == override_set_remove(o, set)
        n == Len(o.override_sets)
        at == o.active_override_set + 1
    IN  /\ r.ret
        /\ set # ActiveSetOf(o) => ActiveSetOf(r.o) = ActiveSetOf(o)
        /\ (set = ActiveSetOf(o) /\ at < n) => ActiveSetOf(r.o) = o.override_sets[at + 1]
        /\ (set = ActiveSetOf(o) /\ at = n /\ n > 1) =>
             ActiveSetOf(r.o) = r.o.override_sets[Len(r.o.override_sets)]

\* Three sets, the middle one active: removing the first one moves the
\* index down with the active set, and removing the active one leaves the
\* index on the set that followed.
C40_Witness ==
  /\ Len(override_sets) = 3
  /\ active_override_set = 1
  /\ LET before == override_set_remove(OverrideView, override_sets[1])
         active == override_set_remove(OverrideView, override_sets[2])
     IN  /\ before.o.active_override_set = 0
         /\ ActiveSetOf(before.o) = override_sets[2]
         /\ active.o.active_override_set = 1
         /\ ActiveSetOf(active.o) = override_sets[3]

====
